---- MODULE Spec2Model ----
(***************************************************************************)
(* Controller side of the reverse-tunnel request router (oes-birger).      *)
(*                                                                         *)
(* The module models the two inbound HTTP adapters of the controller,      *)
(*   serviceAPIHandler / runAPIHandler   (app/controller/service_server.go)*)
(*   kubernetesAPIHandler                (app/controller/controller.go)    *)
(* together with the parts of the agent registry and of the tunnel session *)
(* they call (agents.Send, agents.Cancel, the session reader and the       *)
(* per-request mailbox message.Out).                                       *)
(*                                                                         *)
(* A handler is a goroutine that blocks in exactly one place, the receive  *)
(* `in, more := <-message.Out`.  Everything it does between two receives   *)
(* touches only its own locals and its own http.ResponseWriter, so one     *)
(* action per receive is the granularity of the model.  The cancellation   *)
(* watcher `go func() { <-notify; if !cleanClose {...} }()` is a second    *)
(* goroutine per request and has its own action.                           *)
(***************************************************************************)
EXTENDS Integers, Sequences, FiniteSets, TLC

(***************************************************************************)
(* Bounds of the model.                                                    *)
(***************************************************************************)
\* inbound HTTP requests accepted by the controller in one behaviour
MaxReq == 2
\* agent sessions that connect in one behaviour
MaxSession == 2
\* frames the agents emit, in total, in one behaviour of Spec
MaxFrames == 1
\* frames the agent emits in one behaviour of StreamSpec
MaxStream == 4

Requests == 1..MaxReq
Sessions == 1..MaxSession
\* the zero value of AgentSearch.Session / of a requestID that was never minted
NoSession == 0
NoID == 0

(***************************************************************************)
(* Values.                                                                 *)
(***************************************************************************)
\* HTTP status codes used by the handlers (net/http constants).
StatusOK == 200
StatusBadRequest == 400
StatusBadGateway == 502

\* (agentName, endpointType, endpointName) tuples.
Ident(a, t, n) == [agent |-> a, type |-> t, name |-> n]
NoIdent == Ident("", "", "")
IdEastKube == Ident("east", "kubernetes", "default")
IdMissing == Ident("east", "kubernetes", "missing")

\* What a connecting agent session can be: its certificate's agent name and
\* the one endpoint it advertises (configured = true).
Advertised == {IdEastKube}

\* Peer certificates.  purpose "none": no client certificate was presented
\* (the service listener asks for VerifyClientCertIfGiven); "unparsable": a
\* CA-signed certificate whose name does not parse.
Cert(p, id) == [purpose |-> p, agent |-> id.agent, type |-> id.type, name |-> id.name]
NoCert == Cert("none", NoIdent)
BadCert == Cert("unparsable", NoIdent)
AgentCert == Cert("agent", Ident("east", "", ""))
ControlCert == Cert("control", Ident("", "", "east"))
ServiceCerts == {Cert("service", IdEastKube), Cert("service", IdMissing)}

\* Authorization header.  scheme "none": no Basic auth; valid: the password
\* is a JWT that ValidateJWT accepts, and (agent, type, name) are its claims.
Auth(s, v, id) == [scheme |-> s, valid |-> v, agent |-> id.agent, type |-> id.type, name |-> id.name]
NoAuth == Auth("none", FALSE, NoIdent)
BadJWT == Auth("basic", FALSE, NoIdent)
GoodJWT == Auth("basic", TRUE, IdEastKube)

\* Body bytes.
Bytes == {"a", "b", "c"}
ChunkBodies == {<<>>, <<"a">>, <<"b", "c">>}
ContentLengths == {-1, 0, 2}

\* Agent-to-controller frames that carry a request id.  "Other" stands for
\* every event the handlers' type switch sends to `case nil` / `default`.
Frame(k, st, cl, b) == [kind |-> k, status |-> st, contentLength |-> cl, body |-> b]
HttpResponse(st, cl) == Frame("HttpResponse", st, cl, <<>>)
HttpChunkedResponse(b) == Frame("HttpChunkedResponse", 0, 0, b)
OtherEvent == Frame("Other", 0, 0, <<>>)
\* In `received`, the close of message.Out (more = false) is recorded as an event.
ClosedEvent == Frame("closed", 0, 0, <<>>)
AgentFrames ==
    {HttpResponse(StatusOK, cl) : cl \in ContentLengths}
        \cup {HttpChunkedResponse(b) : b \in ChunkBodies}
        \cup {OtherEvent}

\* Controller-to-agent frames.
HttpRequest(id, t, n) == [kind |-> "HttpRequest", id |-> id, type |-> t, name |-> n]
CancelRequest(id) == [kind |-> "CancelRequest", id |-> id, type |-> "", name |-> ""]

\* The body serviceAPIHandler writes for a rejected request.
ErrBody == <<"e">>

\* length of outputSender's read buffer (10240 in the code), and non-empty
\* reads of one outputSender task in one behaviour
BufLen == 2
MaxBufReads == 3

VARIABLES
    nreq,           \* inbound requests accepted so far
    ulid,           \* last id minted by ulidContext
    listener,       \* [Requests -> {"", "service", "kube"}]
    cert,           \* the request's r.TLS.PeerCertificates
    auth,           \* the request's Authorization header
    transactionID,  \* the id minted for the request, NoID if none
    ep,             \* the handler's search value (AgentSearch / endpoint)
    sessionID,      \* the session Send selected, NoSession if none
    pc,             \* "new", "recv" (blocked on message.Out), "done" (returned)
    seenHeader,
    isChunked,
    cleanClose,
    w,              \* calls made on the http.ResponseWriter, in order
    received,       \* events the handler took from message.Out, in order
    ctx,            \* r.Context(): "live", "client" (caller gone), "returned"
    watcher,        \* "none", "waiting", "cancelled", "skipped"
    cancels,        \* agents.Cancel / agents.CancelRequest calls of the request
    nsess,          \* sessions connected so far
    sess,           \* [Sessions -> {"new", "ready", "closed"}]
    advert,         \* the session's agent name and advertised endpoint
    outbound,       \* frames enqueued to the session's agent, in order
    inflight,       \* the session's inflight table: a set of request ids
    mailbox,        \* message.Out per request: "none", "open", "closed"
    emitted,        \* frames the owning agent emitted for the request, in order
    blocked,        \* session reader stuck sending to a mailbox nobody drains
    nframes,        \* frames emitted so far
    \* the control API server (cncServer)
    jwtCurrentKey,  \* cncServer.jwtCurrentKey, "" until MakeCNCServer ran
    cncIssued,      \* certificates and tokens the authority issued, in order
    cncReplies,     \* control API requests served, with their replies, in order
    \* the agent's runCommand
    cmdPc,          \* "idle", "entered", "loop" (ranging over agg), "wait", "returned"
    cmdRun,         \* what the operating system did: spawn and exit outcome
    activeCount,
    sender,         \* [Channels -> {"none", "running", "returned"}]: outputSender tasks
    dataflow,       \* frames runCommand put on dataflow, in order
    cancelTable,    \* the agent's cancel functions: the request ids registered
    \* the remote-command tool
    toolPc,         \* "new", "recv" (in stream.Recv), "exited"
    toolIn,         \* frames the tool received, in order
    toolStdout,     \* what the tool wrote to os.Stdout
    toolStderr,     \* what the tool wrote to os.Stderr
    toolExit,       \* the process exit status, -1 while running
    \* the headers of one transaction of an HTTP adapter
    hdrPc,          \* "new", "recv" (request forwarded), "done" (returned)
    hdrWire,        \* the header lines the inbound caller sent, in order
    rHeader,        \* r.Header
    wHeader,        \* w.Header()
    fwdHeaders,     \* HttpRequest.Headers of the forwarded request
    sentHeader,     \* the headers sent to the caller, once WriteHeader was called
    hdrResps,       \* the HttpResponse frames the adapter processed, in order
    \* the agent's runTunnel
    agentPos,       \* [Sessions -> Nat]: frames of outbound the agent has handled
    agentOut,       \* frames the agent sent on its stream, in order
    agentDone,      \* what became of each HttpRequest the agent handled
    \* one outputSender task and the consumers of its messages
    buffer,         \* the task's read buffer
    tmps,           \* the byte arrays the task allocated, in order
    bufPc,          \* "running", "returned"
    bufReads,       \* the bytes each non-empty read returned, in order
    bufMsgs,        \* the messages the task sent, in order
    bufWire         \* the bodies as the stream writer serialised them

cncVars == <<jwtCurrentKey, cncIssued, cncReplies>>
cmdVars == <<cmdPc, cmdRun, activeCount, sender, dataflow, cancelTable>>
toolVars == <<toolPc, toolIn, toolStdout, toolStderr, toolExit>>
hdrVars == <<hdrPc, hdrWire, rHeader, wHeader, fwdHeaders, sentHeader, hdrResps>>
tunVars == <<agentPos, agentOut, agentDone>>
bufVars == <<buffer, tmps, bufPc, bufReads, bufMsgs, bufWire>>
extVars == <<hdrVars, tunVars, bufVars>>

vars == <<nreq, ulid, listener, cert, auth, transactionID, ep, sessionID, pc,
          seenHeader, isChunked, cleanClose, w, received, ctx, watcher, cancels,
          nsess, sess, advert, outbound, inflight, mailbox, emitted, blocked,
          nframes, cncVars, cmdVars, toolVars, extVars>>

reqVars == <<nreq, ulid, listener, cert, auth, transactionID, ep, sessionID>>
handlerVars == <<pc, seenHeader, isChunked, cleanClose, w, received>>
watchVars == <<ctx, watcher, cancels>>
sessVars == <<nsess, sess, advert>>


(***************************************************************************)
(* http.ResponseWriter.  The log keeps every call; what the inbound caller *)
(* sees follows net/http: the first WriteHeader fixes the status, a Write  *)
(* or Flush before any WriteHeader sends an implicit 200, and a later      *)
(* WriteHeader is ignored.                                                 *)
(***************************************************************************)
Call(op, code, data) == [op |-> op, code |-> code, data |-> data]
WriteHeader(log, code) == Append(log, Call("WriteHeader", code, <<>>))
Write(log, data) == Append(log, Call("Write", 0, data))
Flush(log) == Append(log, Call("Flush", 0, <<>>))

\* The status line the inbound caller gets; 0 while none has been sent.
Status(log) ==
    IF log = <<>> THEN 0
    ELSE IF log[1].op = "WriteHeader" THEN log[1].code
    ELSE StatusOK

\* The body bytes the inbound caller gets.
RECURSIVE Body(_)
Body(log) ==
    IF log = <<>> THEN <<>>
    ELSE (IF Head(log).op = "Write" THEN Head(log).data ELSE <<>>) \o Body(Tail(log))

\* The explicit WriteHeader calls, in order.
WriteHeaderCalls(log) == SelectSeq(log, LAMBDA c : c.op = "WriteHeader")

(***************************************************************************)
(* Identity extraction of the service listener.                            *)
(***************************************************************************)
\* ca.GetCertificateNameFromCert: the parsed name, or an error.
GetCertificateNameFromCert(c) ==
    IF c.purpose = "unparsable"
    THEN [err |-> TRUE, Purpose |-> "", Agent |-> "", Type |-> "", Name |-> ""]
    ELSE [err |-> FALSE, Purpose |-> c.purpose, Agent |-> c.agent, Type |-> c.type, Name |-> c.name]

\* ValidateJWT: the token's (type, name, agent) claims, or an error.
ValidateJWT(a) ==
    IF a.valid
    THEN [err |-> FALSE, endpointType |-> a.type, endpointName |-> a.name, agentIdentity |-> a.agent]
    ELSE [err |-> TRUE, endpointType |-> "", endpointName |-> "", agentIdentity |-> ""]

Extracted(a, t, n, ok) ==
    [agentIdentity |-> a, endpointType |-> t, endpointName |-> n, validated |-> ok]
NotExtracted == Extracted("", "", "", FALSE)

extractEndpointFromCert(c) ==
    IF c.purpose = "none" THEN NotExtracted
    ELSE LET names == GetCertificateNameFromCert(c) IN
         IF names.err THEN NotExtracted
         ELSE IF names.Purpose # "service" THEN NotExtracted
         ELSE Extracted(names.Agent, names.Type, names.Name, TRUE)

\* Variant that trusts the Basic-auth username for the agent name.
extractEndpointFromJWTUser(a) ==
    IF a.scheme # "basic" THEN NotExtracted
    ELSE IF ValidateJWT(a).err THEN NotExtracted
    ELSE Extracted(a.user, ValidateJWT(a).endpointType, ValidateJWT(a).endpointName, TRUE)

extractEndpointFromJWT(a) ==
    IF a.scheme # "basic" THEN NotExtracted
    ELSE LET tok == ValidateJWT(a) IN
         IF tok.err THEN NotExtracted
         ELSE Extracted(tok.agentIdentity, tok.endpointType, tok.endpointName, TRUE)

\* Variant of extractEndpoint that tries the Basic-auth JWT before the peer
\* certificate.
extractEndpointJWTFirst(c, a) ==
    IF extractEndpointFromJWT(a).validated THEN extractEndpointFromJWT(a)
    ELSE IF extractEndpointFromCert(c).validated THEN extractEndpointFromCert(c)
    ELSE NotExtracted

\* validated = FALSE stands for the error return.
extractEndpoint(c, a) ==
    IF extractEndpointFromCert(c).validated THEN extractEndpointFromCert(c)
    ELSE IF extractEndpointFromJWT(a).validated THEN extractEndpointFromJWT(a)
    ELSE NotExtracted

\* agent.AgentSearch
AgentSearch(n, t, e, s) ==
    [Name |-> n, EndpointType |-> t, EndpointName |-> e, Session |-> s]
NoSearch == AgentSearch("", "", "", NoSession)

\* firstLabel(CommonName): the CN's first dotted label.  A certificate's CN
\* starts with its agent name, or with its name when it carries no agent.
CommonName(c) == IF c.agent # "" THEN <<c.agent, c.type, c.name>> ELSE <<c.name>>
firstLabel(cn) == cn[1]

(***************************************************************************)
(* Agent registry and dispatcher.                                          *)
(***************************************************************************)
\* The sessions a search is eligible for.
Eligible(search) ==
    {s \in Sessions :
        /\ sess[s] = "ready"
        /\ search.Name = "" \/ advert[s].agent = search.Name
        /\ advert[s].type = search.EndpointType
        /\ search.EndpointName = "" \/ advert[s].name = search.EndpointName}

\* SendToAgent(endpoint{name}): the sessions of the named agent.
EligibleAgent(search) ==
    {s \in Sessions : sess[s] = "ready" /\ advert[s].agent = search.Name}

\* The sessions a Cancel is delivered to: the one named by search.Session if
\* it is still connected; without a sessionID, the sessions of the agent.
CancelTargets(search) ==
    IF search.Session # NoSession
    THEN {s \in Sessions : s = search.Session /\ sess[s] = "ready"}
    ELSE EligibleAgent(search)

ReqOf(id) == CHOOSE r \in Requests : transactionID[r] = id

\* Send / SendToAgent: publish the request on session s and register the
\* request's mailbox in the session's inflight table.
Send(s, r, req) ==
    /\ outbound' = [outbound EXCEPT ![s] = Append(@, req)]
    /\ inflight' = [inflight EXCEPT ![s] = @ \cup {req.id}]
    /\ mailbox' = [mailbox EXCEPT ![r] = "open"]

\* Cancel / CancelRequest: enqueue CancelRequest{id} to the target sessions
\* and close the inflight entry; nothing happens for a session that is gone.
Cancel(search, id) ==
    LET targets == CancelTargets(search) IN
    /\ outbound' = [s \in Sessions |->
                      IF s \in targets THEN Append(outbound[s], CancelRequest(id))
                      ELSE outbound[s]]
    /\ inflight' = [s \in Sessions |->
                      IF s \in targets THEN inflight[s] \ {id} ELSE inflight[s]]
    /\ mailbox' = [r \in Requests |->
                      IF transactionID[r] = id /\ (\E s \in targets : id \in inflight[s])
                      THEN "closed" ELSE mailbox[r]]
    /\ blocked' = [s \in Sessions |->
                      IF s \in targets /\ blocked[s] = id THEN NoID ELSE blocked[s]]


(***************************************************************************)
(* The response loop of runAPIHandler, as a function on the handler's      *)
(* locals h = (seenHeader, isChunked, cleanClose, w, returned).            *)
(***************************************************************************)
Locals(r) ==
    [seenHeader |-> seenHeader[r], isChunked |-> isChunked[r],
     cleanClose |-> cleanClose[r], w |-> w[r], returned |-> FALSE]

\* Variants of the branches below with one statement changed; a property
\* that is about a branch must tell the branch from its variant.
apiClosedNoStatus(h) ==
    [h EXCEPT !.cleanClose = TRUE, !.returned = TRUE]

apiClosedAlways502(h) ==
    [h EXCEPT !.w = WriteHeader(@, StatusBadGateway),
              !.cleanClose = TRUE,
              !.returned = TRUE]

apiHttpResponseNoReturn(h, resp) ==
    [h EXCEPT !.seenHeader = TRUE,
              !.isChunked = resp.contentLength < 0,
              !.w = WriteHeader(@, resp.status)]

apiChunkTwice(h, resp) ==
    IF ~h.seenHeader
    THEN [h EXCEPT !.w = WriteHeader(@, StatusBadGateway), !.returned = TRUE]
    ELSE IF Len(resp.body) = 0
    THEN [h EXCEPT !.cleanClose = TRUE, !.returned = TRUE]
    ELSE [h EXCEPT !.w = IF h.isChunked THEN Flush(Write(Write(@, resp.body), resp.body))
                         ELSE Write(Write(@, resp.body), resp.body)]

apiChunkNoEOF(h, resp) ==
    IF ~h.seenHeader
    THEN [h EXCEPT !.w = WriteHeader(@, StatusBadGateway), !.returned = TRUE]
    ELSE IF Len(resp.body) = 0
    THEN h
    ELSE [h EXCEPT !.w = IF h.isChunked THEN Flush(Write(@, resp.body))
                         ELSE Write(@, resp.body)]

apiChunkNoFlush(h, resp) ==
    IF ~h.seenHeader
    THEN [h EXCEPT !.w = WriteHeader(@, StatusBadGateway), !.returned = TRUE]
    ELSE IF Len(resp.body) = 0
    THEN [h EXCEPT !.cleanClose = TRUE, !.returned = TRUE]
    ELSE [h EXCEPT !.w = Write(@, resp.body)]

apiChunkNoHeaderCheck(h, resp) ==
    IF Len(resp.body) = 0
    THEN [h EXCEPT !.cleanClose = TRUE, !.returned = TRUE]
    ELSE [h EXCEPT !.w = IF h.isChunked THEN Flush(Write(@, resp.body))
                         ELSE Write(@, resp.body)]

apiClosedLate502(h) ==
    [h EXCEPT !.w = IF h.seenHeader THEN WriteHeader(@, StatusBadGateway) ELSE @,
              !.cleanClose = TRUE,
              !.returned = TRUE]

\* `if !more { ... }`: message.Out was closed.
apiClosed(h) ==
    [h EXCEPT !.w = IF ~h.seenHeader THEN WriteHeader(@, StatusBadGateway) ELSE @,
              !.cleanClose = TRUE,
              !.returned = TRUE]

\* case *tunnel.AgentToControllerWrapper_HttpResponse
apiHttpResponse(h, resp) ==
    LET h1 == [h EXCEPT !.seenHeader = TRUE,
                        !.isChunked = resp.contentLength < 0,
                        !.w = WriteHeader(@, resp.status)]
    IN  IF resp.contentLength = 0
        THEN [h1 EXCEPT !.cleanClose = TRUE, !.returned = TRUE]
        ELSE h1

\* Variant of apiHttpChunkedResponse that marks the protocol-error return as
\* a clean close.
apiChunkErrorClean(h, resp) ==
    IF ~h.seenHeader
    THEN [h EXCEPT !.w = WriteHeader(@, StatusBadGateway), !.cleanClose = TRUE,
                   !.returned = TRUE]
    ELSE IF Len(resp.body) = 0
    THEN [h EXCEPT !.cleanClose = TRUE, !.returned = TRUE]
    ELSE [h EXCEPT !.w = IF h.isChunked THEN Flush(Write(@, resp.body))
                         ELSE Write(@, resp.body)]

\* case *tunnel.AgentToControllerWrapper_HttpChunkedResponse
apiHttpChunkedResponse(h, resp) ==
    IF ~h.seenHeader
    THEN [h EXCEPT !.w = WriteHeader(@, StatusBadGateway), !.returned = TRUE]
    ELSE IF Len(resp.body) = 0
    THEN [h EXCEPT !.cleanClose = TRUE, !.returned = TRUE]
    ELSE [h EXCEPT !.w = IF h.isChunked THEN Flush(Write(@, resp.body))
                         ELSE Write(@, resp.body)]

\* One turn of the `for` loop of runAPIHandler on the event e.
runAPIHandlerEvent(h, e) ==
    IF e.kind = "closed" THEN apiClosed(h)
    ELSE IF e.kind = "HttpResponse" THEN apiHttpResponse(h, e)
    ELSE IF e.kind = "HttpChunkedResponse" THEN apiHttpChunkedResponse(h, e)
    ELSE h

\* Variant of kubernetesAPIHandlerEvent that never flushes a chunk.
kubernetesAPIHandlerEventNoFlush(h, e) ==
    IF e.kind = "closed" THEN apiClosed(h)
    ELSE IF e.kind = "HttpResponse" THEN apiHttpResponse(h, e)
    ELSE IF e.kind = "HttpChunkedResponse"
    THEN IF ~h.seenHeader
         THEN [h EXCEPT !.w = WriteHeader(@, StatusBadGateway), !.returned = TRUE]
         ELSE IF Len(e.body) = 0
         THEN [h EXCEPT !.cleanClose = TRUE, !.returned = TRUE]
         ELSE [h EXCEPT !.w = Write(@, e.body)]
    ELSE h

\* One turn of the `for` loop of kubernetesAPIHandler on the event e.
kubernetesAPIHandlerEvent(h, e) ==
    IF e.kind = "closed"
    THEN [h EXCEPT !.w = IF ~h.seenHeader THEN WriteHeader(@, StatusBadGateway) ELSE @,
                   !.cleanClose = TRUE,
                   !.returned = TRUE]
    ELSE IF e.kind = "HttpResponse"
    THEN [h EXCEPT !.seenHeader = TRUE,
                   !.isChunked = e.contentLength < 0,
                   !.w = WriteHeader(@, e.status),
                   !.cleanClose = IF e.contentLength = 0 THEN TRUE ELSE @,
                   !.returned = (e.contentLength = 0)]
    ELSE IF e.kind = "HttpChunkedResponse"
    THEN IF ~h.seenHeader
         THEN [h EXCEPT !.w = WriteHeader(@, StatusBadGateway), !.returned = TRUE]
         ELSE IF Len(e.body) = 0
         THEN [h EXCEPT !.cleanClose = TRUE, !.returned = TRUE]
         ELSE [h EXCEPT !.w = IF h.isChunked THEN Flush(Write(@, e.body))
                              ELSE Write(@, e.body)]
    ELSE h

HandlerEvent(r, e) ==
    IF listener[r] = "service" THEN runAPIHandlerEvent(Locals(r), e)
    ELSE kubernetesAPIHandlerEvent(Locals(r), e)

\* The handler of request r takes event e from message.Out and runs up to
\* its next receive, or returns.  When ServeHTTP returns, net/http cancels
\* the request's context.
Receive(r, e) ==
    LET h == HandlerEvent(r, e) IN
    /\ seenHeader' = [seenHeader EXCEPT ![r] = h.seenHeader]
    /\ isChunked' = [isChunked EXCEPT ![r] = h.isChunked]
    /\ cleanClose' = [cleanClose EXCEPT ![r] = h.cleanClose]
    /\ w' = [w EXCEPT ![r] = h.w]
    /\ received' = [received EXCEPT ![r] = Append(@, e)]
    /\ pc' = [pc EXCEPT ![r] = IF h.returned THEN "done" ELSE "recv"]
    /\ ctx' = [ctx EXCEPT ![r] = IF h.returned /\ @ = "live" THEN "returned" ELSE @]

(***************************************************************************)
(* Inbound requests.                                                       *)
(***************************************************************************)
\* Variants with one statement changed: ep without `ep.Session = sessionID`,
\* and a not-found branch that falls through to the watcher goroutine.
apiSearchUnbound(search, s) == search

apiNotFoundWatched(r) ==
    /\ w' = [w EXCEPT ![r] = WriteHeader(@, StatusBadGateway)]
    /\ pc' = [pc EXCEPT ![r] = "done"]
    /\ ctx' = [ctx EXCEPT ![r] = "returned"]
    /\ watcher' = [watcher EXCEPT ![r] = "waiting"]
    /\ UNCHANGED <<sessionID, outbound, inflight, mailbox>>

\* What the watcher goroutine passes to agents.Cancel: the handler's ep,
\* which carries the sessionID Send returned (ep.Session = sessionID).
apiSearchAfterSend(search, s) == [search EXCEPT !.Session = s]

\* `if !found { w.WriteHeader(http.StatusBadGateway); return }`
apiNotFound(r) ==
    /\ w' = [w EXCEPT ![r] = WriteHeader(@, StatusBadGateway)]
    /\ pc' = [pc EXCEPT ![r] = "done"]
    /\ ctx' = [ctx EXCEPT ![r] = "returned"]
    /\ UNCHANGED <<sessionID, watcher, outbound, inflight, mailbox>>

\* Variant of Ulid that hands out the id it handed out last.
UlidRepeated(last) == IF last = NoID THEN 1 ELSE last

\* ulidContext.Ulid(): the controller's one generator, shared by the two
\* listeners; last is the id it handed out last.
Ulid(last) == last + 1

\* runAPIHandler from its entry to its first receive.
runAPIHandler(r, search) ==
    LET id == Ulid(ulid)
        req == HttpRequest(id, search.EndpointType, search.EndpointName)
        found == Eligible(search)
    IN  /\ ulid' = id
        /\ transactionID' = [transactionID EXCEPT ![r] = id]
        /\ IF found = {}
           THEN /\ apiNotFound(r)
                /\ ep' = [ep EXCEPT ![r] = search]
           ELSE \E s \in found :
                /\ Send(s, r, req)
                /\ sessionID' = [sessionID EXCEPT ![r] = s]
                /\ ep' = [ep EXCEPT ![r] = apiSearchAfterSend(search, s)]
                /\ watcher' = [watcher EXCEPT ![r] = "waiting"]
                /\ pc' = [pc EXCEPT ![r] = "recv"]
                /\ UNCHANGED <<w, ctx>>

\* A request arrives at the service listener.
serviceAPIHandler(c, a) ==
    LET r == nreq + 1
        e == extractEndpoint(c, a)
    IN  /\ nreq < MaxReq
        /\ nreq' = r
        /\ listener' = [listener EXCEPT ![r] = "service"]
        /\ cert' = [cert EXCEPT ![r] = c]
        /\ auth' = [auth EXCEPT ![r] = a]
        /\ IF ~e.validated
           THEN /\ w' = [w EXCEPT ![r] = WriteHeader(Write(@, ErrBody), StatusBadRequest)]
                /\ pc' = [pc EXCEPT ![r] = "done"]
                /\ ctx' = [ctx EXCEPT ![r] = "returned"]
                /\ UNCHANGED <<ulid, transactionID, ep, sessionID, watcher,
                               outbound, inflight, mailbox>>
           ELSE runAPIHandler(r, AgentSearch(e.agentIdentity, e.endpointType,
                                             e.endpointName, NoSession))
        /\ UNCHANGED <<seenHeader, isChunked, cleanClose, received, cancels,
                       sessVars, emitted, blocked, nframes>>

\* A request arrives at the Kubernetes-API listener, which requires a
\* CA-signed client certificate (tls.RequireAndVerifyClientCert).
kubernetesAPIHandler(c) ==
    LET r == nreq + 1
        agentname == firstLabel(CommonName(c))
        search == AgentSearch(agentname, "", "", NoSession)
        id == Ulid(ulid)
        req == HttpRequest(id, "kubernetes", "")
        found == EligibleAgent(search)
    IN  /\ nreq < MaxReq
        /\ nreq' = r
        /\ listener' = [listener EXCEPT ![r] = "kube"]
        /\ cert' = [cert EXCEPT ![r] = c]
        /\ ulid' = id
        /\ transactionID' = [transactionID EXCEPT ![r] = id]
        /\ ep' = [ep EXCEPT ![r] = search]
        /\ IF found = {}
           THEN /\ w' = [w EXCEPT ![r] = WriteHeader(@, StatusBadGateway)]
                /\ pc' = [pc EXCEPT ![r] = "done"]
                /\ ctx' = [ctx EXCEPT ![r] = "returned"]
                /\ UNCHANGED <<sessionID, watcher, outbound, inflight, mailbox>>
           ELSE \E s \in found :
                /\ Send(s, r, req)
                /\ sessionID' = [sessionID EXCEPT ![r] = s]
                /\ watcher' = [watcher EXCEPT ![r] = "waiting"]
                /\ pc' = [pc EXCEPT ![r] = "recv"]
                /\ UNCHANGED <<w, ctx>>
        /\ UNCHANGED <<auth, seenHeader, isChunked, cleanClose, received, cancels,
                       sessVars, emitted, blocked, nframes>>


(***************************************************************************)
(* Agent sessions.                                                         *)
(***************************************************************************)
\* An agent completes its handshake: a fresh session enters Ready and is
\* published in the registry.
Connect(id) ==
    LET s == nsess + 1 IN
    /\ nsess < MaxSession
    /\ nsess' = s
    /\ sess' = [sess EXCEPT ![s] = "ready"]
    /\ advert' = [advert EXCEPT ![s] = id]
    /\ UNCHANGED <<reqVars, handlerVars, watchVars, outbound, inflight, mailbox,
                   emitted, blocked, nframes>>

\* The session's stream ends: it is removed from the registry and every
\* mailbox of its inflight table is closed.
CloseSession(s) ==
    /\ sess[s] = "ready"
    /\ sess' = [sess EXCEPT ![s] = "closed"]
    /\ mailbox' = [r \in Requests |->
                     IF transactionID[r] # NoID /\ transactionID[r] \in inflight[s]
                     THEN "closed" ELSE mailbox[r]]
    /\ inflight' = [inflight EXCEPT ![s] = {}]
    /\ blocked' = [blocked EXCEPT ![s] = NoID]
    /\ UNCHANGED <<reqVars, handlerVars, watchVars, nsess, advert, outbound,
                   emitted, nframes>>

\* The agent of session s emits frame f for request r, which it was sent.
\* The session reader routes it by id: to the inflight mailbox (an unbuffered
\* channel, so the handler takes it in the same step), or drops it when the
\* id is unknown.  A mailbox whose handler has returned is never drained.
AgentSend(s, r, f) ==
    /\ sess[s] = "ready"
    /\ blocked[s] = NoID
    /\ transactionID[r] # NoID
    /\ sessionID[r] = s
    /\ nframes' = nframes + 1
    /\ emitted' = [emitted EXCEPT ![r] = Append(@, f)]
    /\ IF transactionID[r] \notin inflight[s]
       THEN UNCHANGED <<handlerVars, ctx, blocked>>
       ELSE IF pc[r] = "done"
       THEN /\ blocked' = [blocked EXCEPT ![s] = transactionID[r]]
            /\ UNCHANGED <<handlerVars, ctx>>
       ELSE /\ Receive(r, f)
            /\ UNCHANGED blocked
    /\ UNCHANGED <<reqVars, watcher, cancels, sessVars, outbound, inflight, mailbox>>

\* The handler's receive returns more = false.
ObserveClose(r) ==
    /\ pc[r] = "recv"
    /\ mailbox[r] = "closed"
    /\ Receive(r, ClosedEvent)
    /\ UNCHANGED <<reqVars, watcher, cancels, sessVars, outbound, inflight, mailbox,
                   emitted, blocked, nframes>>

(***************************************************************************)
(* Cancellation.                                                           *)
(***************************************************************************)
\* The inbound caller goes away while the handler is running.
ClientDisconnect(r) ==
    /\ pc[r] = "recv"
    /\ ctx[r] = "live"
    /\ ctx' = [ctx EXCEPT ![r] = "client"]
    /\ UNCHANGED <<reqVars, handlerVars, watcher, cancels, sessVars, outbound,
                   inflight, mailbox, emitted, blocked, nframes>>

\* Variant of CleanCloseSeen in which the watcher's read of cleanClose is not
\* ordered after the handler's return either.
CleanCloseSeenUnordered(r) == {cleanClose[r], FALSE}

\* The values the watcher's unsynchronised read of cleanClose can yield.
\* After the handler's return cancelled the context the read is ordered
\* after the handler's writes; after a client disconnect it races with them.
CleanCloseSeen(r) ==
    IF ctx[r] = "client" THEN {cleanClose[r], FALSE} ELSE {cleanClose[r]}

\* Variant of Watch whose goroutine ends without calling agents.Cancel.
WatchNoCancel(r) ==
    /\ watcher[r] = "waiting"
    /\ ctx[r] # "live"
    /\ \E seen \in CleanCloseSeen(r) :
        /\ watcher' = [watcher EXCEPT ![r] = IF seen THEN "skipped" ELSE "cancelled"]
        /\ UNCHANGED <<cancels, outbound, inflight, mailbox, blocked>>
    /\ UNCHANGED <<reqVars, handlerVars, ctx, sessVars, emitted, nframes>>

\* go func() { <-notify; if !cleanClose { agents.Cancel(ep, transactionID) } }()
Watch(r) ==
    /\ watcher[r] = "waiting"
    /\ ctx[r] # "live"
    /\ \E seen \in CleanCloseSeen(r) :
        IF seen
        THEN /\ watcher' = [watcher EXCEPT ![r] = "skipped"]
             /\ UNCHANGED <<cancels, outbound, inflight, mailbox, blocked>>
        ELSE /\ watcher' = [watcher EXCEPT ![r] = "cancelled"]
             /\ cancels' = [cancels EXCEPT ![r] =
                              Append(@, [search |-> ep[r], id |-> transactionID[r]])]
             /\ Cancel(ep[r], transactionID[r])
    /\ UNCHANGED <<reqVars, handlerVars, ctx, sessVars, emitted, nframes>>

(***************************************************************************)
(* Specification.                                                          *)
(***************************************************************************)
Init ==
    /\ nreq = 0
    /\ ulid = NoID
    /\ listener = [r \in Requests |-> ""]
    /\ cert = [r \in Requests |-> NoCert]
    /\ auth = [r \in Requests |-> NoAuth]
    /\ transactionID = [r \in Requests |-> NoID]
    /\ ep = [r \in Requests |-> NoSearch]
    /\ sessionID = [r \in Requests |-> NoSession]
    /\ pc = [r \in Requests |-> "new"]
    /\ seenHeader = [r \in Requests |-> FALSE]
    /\ isChunked = [r \in Requests |-> FALSE]
    /\ cleanClose = [r \in Requests |-> FALSE]
    /\ w = [r \in Requests |-> <<>>]
    /\ received = [r \in Requests |-> <<>>]
    /\ ctx = [r \in Requests |-> "live"]
    /\ watcher = [r \in Requests |-> "none"]
    /\ cancels = [r \in Requests |-> <<>>]
    /\ nsess = 0
    /\ sess = [s \in Sessions |-> "new"]
    /\ advert = [s \in Sessions |-> NoIdent]
    /\ outbound = [s \in Sessions |-> <<>>]
    /\ inflight = [s \in Sessions |-> {}]
    /\ mailbox = [r \in Requests |-> "none"]
    /\ emitted = [r \in Requests |-> <<>>]
    /\ blocked = [s \in Sessions |-> NoID]
    /\ nframes = 0
    /\ jwtCurrentKey = ""
    /\ cncIssued = <<>>
    /\ cncReplies = <<>>
    /\ cmdPc = "idle"
    /\ cmdRun = [spawn |-> "", exit |-> ""]
    /\ activeCount = 0
    /\ sender = [ch \in {"STDOUT", "STDERR"} |-> "none"]
    /\ dataflow = <<>>
    /\ cancelTable = {}
    /\ toolPc = "new"
    /\ toolIn = <<>>
    /\ toolStdout = <<>>
    /\ toolStderr = <<>>
    /\ toolExit = -1
    /\ hdrPc = "new"
    /\ hdrWire = <<>>
    /\ rHeader = [n \in {} |-> <<>>]
    /\ wHeader = [n \in {} |-> <<>>]
    /\ fwdHeaders = <<>>
    /\ sentHeader = [sent |-> FALSE, header |-> [n \in {} |-> <<>>]]
    /\ hdrResps = <<>>
    /\ agentPos = [s \in Sessions |-> 0]
    /\ agentOut = [s \in Sessions |-> <<>>]
    /\ agentDone = [s \in Sessions |-> <<>>]
    /\ buffer = [i \in 1..BufLen |-> "z"]
    /\ tmps = <<>>
    /\ bufPc = "running"
    /\ bufReads = <<>>
    /\ bufMsgs = <<>>
    /\ bufWire = <<>>

\* Credentials a request to the service listener can carry: pairs that
\* authenticate nobody (one per failing branch of the extraction), a service
\* certificate alone (for an endpoint some agent serves, and for one nobody
\* serves), and a valid JWT alone.
RejectedCreds == {<<NoCert, NoAuth>>, <<BadCert, BadJWT>>, <<AgentCert, NoAuth>>}
AcceptedCreds == (ServiceCerts \X {NoAuth}) \cup {<<NoCert, GoodJWT>>}
ServiceListenerCreds == RejectedCreds \cup AcceptedCreds
\* Certificates the Kubernetes-API listener's TLS layer lets through
\* (tls.RequireAndVerifyClientCert): CA-signed, of any agent.
KubeListenerCerts == {Cert("service", IdEastKube), Cert("service", Ident("west", "kubernetes", "default"))}

ServiceRequest ==
    /\ \E ca \in ServiceListenerCreds : serviceAPIHandler(ca[1], ca[2])
    /\ UNCHANGED <<cncVars, cmdVars, toolVars, extVars>>
KubeRequest ==
    /\ \E c \in KubeListenerCerts : kubernetesAPIHandler(c)
    /\ UNCHANGED <<cncVars, cmdVars, toolVars, extVars>>
AgentConnects ==
    /\ \E id \in Advertised : Connect(id)
    /\ UNCHANGED <<cncVars, cmdVars, toolVars, extVars>>
SessionCloses ==
    /\ \E s \in Sessions : CloseSession(s)
    /\ UNCHANGED <<cncVars, cmdVars, toolVars, extVars>>
AgentSends ==
    /\ nframes < MaxFrames
    /\ \E s \in Sessions, r \in Requests, f \in AgentFrames : AgentSend(s, r, f)
    /\ UNCHANGED <<cncVars, cmdVars, toolVars, extVars>>
MailboxClosed ==
    /\ \E r \in Requests : ObserveClose(r)
    /\ UNCHANGED <<cncVars, cmdVars, toolVars, extVars>>
CallerGone ==
    /\ \E r \in Requests : ClientDisconnect(r)
    /\ UNCHANGED <<cncVars, cmdVars, toolVars, extVars>>
Watcher ==
    /\ \E r \in Requests : Watch(r)
    /\ UNCHANGED <<cncVars, cmdVars, toolVars, extVars>>

Next ==
    \/ ServiceRequest
    \/ KubeRequest
    \/ AgentConnects
    \/ SessionCloses
    \/ AgentSends
    \/ MailboxClosed
    \/ CallerGone
    \/ Watcher

Spec == Init /\ [][Next]_vars

\* The Go scheduler runs every runnable goroutine: a handler whose mailbox
\* was closed returns from its receive, and a watcher whose context is done
\* proceeds.
FairSpec == Spec /\ WF_vars(MailboxClosed) /\ WF_vars(Watcher)

(***************************************************************************)
(* The life of one transaction: one inbound request, one agent session,    *)
(* and an agent that may answer with up to MaxStream frames.               *)
(***************************************************************************)
StreamServiceRequest == nreq = 0 /\ ServiceRequest
StreamKubeRequest == nreq = 0 /\ KubeRequest
StreamConnects == nsess = 0 /\ AgentConnects
StreamSends ==
    /\ nframes < MaxStream
    /\ \E s \in Sessions, r \in Requests, f \in AgentFrames : AgentSend(s, r, f)
    /\ UNCHANGED <<cncVars, cmdVars, toolVars, extVars>>

StreamNext ==
    \/ StreamServiceRequest
    \/ StreamKubeRequest
    \/ StreamConnects
    \/ SessionCloses
    \/ StreamSends
    \/ MailboxClosed
    \/ CallerGone
    \/ Watcher

StreamSpec == Init /\ [][StreamNext]_vars


(***************************************************************************)
(* Authentication: one inbound request carrying any combination of a peer  *)
(* certificate and an Authorization header, against agents of two names.   *)
(***************************************************************************)
IdWestAws == Ident("west", "aws", "prod")

AuthAdvertised == {IdEastKube, IdWestAws}

\* An Authorization header with the Basic-auth username spelled out; the
\* handlers discard the username (`_, authPassword, ok = r.BasicAuth()`).
AuthAs(u, a) ==
    [scheme |-> a.scheme, valid |-> a.valid, agent |-> a.agent, type |-> a.type,
     name |-> a.name, user |-> u]

AuthCerts ==
    {NoCert, BadCert, AgentCert, ControlCert,
     Cert("service", IdEastKube), Cert("service", IdWestAws)}

AuthTokens ==
    {AuthAs("", NoAuth), AuthAs("west", BadJWT), AuthAs("west", GoodJWT),
     AuthAs("east", Auth("basic", TRUE, IdWestAws))}

\* tls.RequireAndVerifyClientCert admits every certificate the CA signed.
AuthKubeCerts ==
    {AgentCert, ControlCert, Cert("service", IdEastKube), Cert("agent", Ident("west", "", ""))}

AuthServiceRequest ==
    /\ nreq = 0
    /\ \E c \in AuthCerts, a \in AuthTokens : serviceAPIHandler(c, a)
    /\ UNCHANGED <<cncVars, cmdVars, toolVars, extVars>>
AuthKubeRequest ==
    /\ nreq = 0
    /\ \E c \in AuthKubeCerts : kubernetesAPIHandler(c)
    /\ UNCHANGED <<cncVars, cmdVars, toolVars, extVars>>
AuthConnects ==
    /\ \E id \in AuthAdvertised : Connect(id)
    /\ UNCHANGED <<cncVars, cmdVars, toolVars, extVars>>

AuthNext ==
    \/ AuthServiceRequest
    \/ AuthKubeRequest
    \/ AuthConnects
    \/ SessionCloses
    \/ MailboxClosed
    \/ CallerGone
    \/ Watcher

AuthSpec == Init /\ [][AuthNext]_vars

(***************************************************************************)
(* The control API (cncServer): routes, authenticate and the handlers.     *)
(***************************************************************************)
\* control API requests served in one behaviour
MaxCnc == 2

StatusForbidden == 403
StatusMethodNotAllowed == 405

httpVars == <<reqVars, handlerVars, watchVars, sessVars, outbound, inflight,
              mailbox, emitted, blocked, nframes>>

\* Key ids of cncServer.jwkKeyset, and the ids jwtCurrentKey is configured to.
jwkKeyset == {"k1"}
CurrentKeys == {"k1", "k0"}

\* ca.CertificateName
CertificateName(p, a, t, n) == [Purpose |-> p, Agent |-> a, Type |-> t, Name |-> n]

\* authority.GenerateCertificate: the certificate whose name parses back to
\* the CertificateName it was issued for.
GenerateCertificate(name) == Cert(name.Purpose, Ident(name.Agent, name.Type, name.Name))

\* jwtutil.MakeJWT(key, type, name, agent)
MakeJWT(key, t, n, a) == [kind |-> "jwt", key |-> key, type |-> t, name |-> n, agent |-> a]

\* A request body: whether it decodes as JSON, the verdict of the request
\* type's Validate, and the fields the handlers read.
CncBody(dec, val, a, t, n) ==
    [decodes |-> dec, valid |-> val, AgentName |-> a, Type |-> t, Name |-> n]
NoBody == CncBody(FALSE, FALSE, "", "", "")
CncBodies ==
    {NoBody,
     CncBody(TRUE, FALSE, "", "", "prod"),
     CncBody(TRUE, TRUE, "east", "aws", "prod"),
     CncBody(TRUE, TRUE, "east", "kubernetes", "default")}

CncRoutes == {"kubeconfig", "manifest", "service", "control", "statistics"}
CncMethods == {"GET", "POST"}

\* routes(): the method each route is registered with.
routes(route) == IF route = "statistics" THEN "GET" ELSE "POST"

\* util.FailRequest(w, err, code)
FailRequest(log, code) == Write(WriteHeader(log, code), ErrBody)

\* What a handler did: its calls on w and the credentials it had issued.
Outcome(log, issued) == [w |-> log, issued |-> issued]

\* Variant of authenticate without the purpose check.
authenticateAnyPurpose(method, m, c) ==
    IF m # method THEN StatusMethodNotAllowed
    ELSE IF GetCertificateNameFromCert(c).err THEN StatusForbidden
    ELSE 0

\* authenticate(method, h): the status it fails the request with, 0 when it
\* calls h.
authenticate(method, m, c) ==
    IF m # method THEN StatusMethodNotAllowed
    ELSE IF GetCertificateNameFromCert(c).err THEN StatusForbidden
    ELSE IF GetCertificateNameFromCert(c).Purpose # "control" THEN StatusForbidden
    ELSE 0

\* Variant of generateKubectlComponents without req.Validate().
generateKubectlUnvalidated(req, ok) ==
    IF ~req.decodes THEN Outcome(FailRequest(<<>>, StatusBadRequest), <<>>)
    ELSE LET name == CertificateName("service", req.AgentName, "kubernetes", req.Name) IN
         IF ~ok THEN Outcome(FailRequest(<<>>, StatusBadRequest), <<>>)
         ELSE Outcome(Write(<<>>, [AgentName |-> req.AgentName, Name |-> req.Name,
                                   UserCertificate |-> GenerateCertificate(name)]),
                      <<GenerateCertificate(name)>>)

\* generateKubectlComponents; ok: GenerateCertificate returns no error.
generateKubectlComponents(req, ok) ==
    IF ~req.decodes THEN Outcome(FailRequest(<<>>, StatusBadRequest), <<>>)
    ELSE IF ~req.valid THEN Outcome(FailRequest(<<>>, StatusBadRequest), <<>>)
    ELSE LET name == CertificateName("service", req.AgentName, "kubernetes", req.Name) IN
         IF ~ok THEN Outcome(FailRequest(<<>>, StatusBadRequest), <<>>)
         ELSE Outcome(Write(<<>>, [AgentName |-> req.AgentName, Name |-> req.Name,
                                   UserCertificate |-> GenerateCertificate(name)]),
                      <<GenerateCertificate(name)>>)

\* generateAgentManifestComponents
generateAgentManifestComponents(req, ok) ==
    IF ~req.decodes THEN Outcome(FailRequest(<<>>, StatusBadRequest), <<>>)
    ELSE IF ~req.valid THEN Outcome(FailRequest(<<>>, StatusBadRequest), <<>>)
    ELSE LET name == CertificateName("agent", req.AgentName, "", "") IN
         IF ~ok THEN Outcome(FailRequest(<<>>, StatusBadRequest), <<>>)
         ELSE Outcome(Write(<<>>, [AgentName |-> req.AgentName,
                                   AgentCertificate |-> GenerateCertificate(name)]),
                      <<GenerateCertificate(name)>>)


\* username := fmt.Sprintf("%s.%s", req.Name, req.AgentName)
ServiceUsername(req) == <<req.Name, req.AgentName>>

\* Variant of generateServiceCredentials whose switch has no "aws" case.
generateServiceCredentialsBasic(req, key, ok) ==
    IF ~req.decodes THEN Outcome(FailRequest(<<>>, StatusBadRequest), <<>>)
    ELSE IF ~req.valid THEN Outcome(FailRequest(<<>>, StatusBadRequest), <<>>)
    ELSE IF key \notin jwkKeyset THEN Outcome(FailRequest(<<>>, StatusBadRequest), <<>>)
    ELSE IF ~ok THEN Outcome(FailRequest(<<>>, StatusBadRequest), <<>>)
    ELSE LET token == MakeJWT(key, req.Type, req.Name, req.AgentName) IN
         Outcome(Write(<<>>, [AgentName |-> req.AgentName, Name |-> req.Name,
                              Type |-> req.Type, CredentialType |-> "basic",
                              Credential |-> [Username |-> ServiceUsername(req),
                                              Password |-> token]]),
                 <<token>>)

\* generateServiceCredentials; key: s.jwtCurrentKey; ok: MakeJWT returns no
\* error.
generateServiceCredentials(req, key, ok) ==
    IF ~req.decodes THEN Outcome(FailRequest(<<>>, StatusBadRequest), <<>>)
    ELSE IF ~req.valid THEN Outcome(FailRequest(<<>>, StatusBadRequest), <<>>)
    ELSE IF key \notin jwkKeyset THEN Outcome(FailRequest(<<>>, StatusBadRequest), <<>>)
    ELSE IF ~ok THEN Outcome(FailRequest(<<>>, StatusBadRequest), <<>>)
    ELSE LET token == MakeJWT(key, req.Type, req.Name, req.AgentName) IN
         IF req.Type = "aws"
         THEN Outcome(Write(<<>>, [AgentName |-> req.AgentName, Name |-> req.Name,
                                   Type |-> req.Type, CredentialType |-> "aws",
                                   Credential |-> [AwsAccessKey |-> ServiceUsername(req),
                                                   AwsSecretAccessKey |-> token]]),
                      <<token>>)
         ELSE Outcome(Write(<<>>, [AgentName |-> req.AgentName, Name |-> req.Name,
                                   Type |-> req.Type, CredentialType |-> "basic",
                                   Credential |-> [Username |-> ServiceUsername(req),
                                                   Password |-> token]]),
                      <<token>>)

\* generateControlCredentials: the name it has the authority sign carries
\* ca.CertificatePurposeAgent, and the request is not validated.
generateControlCredentials(req, ok) ==
    IF ~req.decodes THEN Outcome(FailRequest(<<>>, StatusBadRequest), <<>>)
    ELSE LET name == CertificateName("agent", "", "", req.Name) IN
         IF ~ok THEN Outcome(FailRequest(<<>>, StatusBadRequest), <<>>)
         ELSE Outcome(Write(<<>>, [Name |-> req.Name,
                                   Certificate |-> GenerateCertificate(name)]),
                      <<GenerateCertificate(name)>>)

\* getStatistics
getStatistics == Outcome(Write(<<>>, [Version |-> "version"]), <<>>)

\* The handler routes() registers for a route.
CncHandler(route, req, ok) ==
    IF route = "kubeconfig" THEN generateKubectlComponents(req, ok)
    ELSE IF route = "manifest" THEN generateAgentManifestComponents(req, ok)
    ELSE IF route = "service" THEN generateServiceCredentials(req, jwtCurrentKey, ok)
    ELSE IF route = "control" THEN generateControlCredentials(req, ok)
    ELSE getStatistics

\* MakeCNCServer(config, authority, agents, jwkset, currentKey, vers)
MakeCNCServer(currentKey) ==
    /\ jwtCurrentKey = ""
    /\ jwtCurrentKey' = currentKey
    /\ UNCHANGED <<cncIssued, cncReplies, httpVars, cmdVars, toolVars, extVars>>

\* Certificates a caller of the control API can present: the listener asks
\* for tls.RequireAndVerifyClientCert, so one the CA signed, among them
\* every certificate the control API has issued.
CncCerts ==
    {ControlCert, AgentCert, BadCert}
        \cup {cncIssued[i] : i \in {j \in 1..Len(cncIssued) : "purpose" \in DOMAIN cncIssued[j]}}

\* One request served by the mux: authenticate, then the route's handler.
\* The body is recorded only when a handler read it.
CncServe(route, m, c, req, ok) ==
    LET gate == authenticate(routes(route), m, c)
        out == IF gate # 0 THEN Outcome(FailRequest(<<>>, gate), <<>>)
               ELSE CncHandler(route, req, ok)
    IN  /\ jwtCurrentKey # ""
        /\ Len(cncReplies) < MaxCnc
        /\ cncReplies' = Append(cncReplies,
                                [route |-> route, method |-> m, cert |-> c,
                                 req |-> IF gate = 0 /\ route # "statistics" THEN req ELSE NoBody,
                                 w |-> out.w, issued |-> out.issued])
        /\ cncIssued' = cncIssued \o out.issued
        /\ UNCHANGED <<jwtCurrentKey, httpVars, cmdVars, toolVars, extVars>>

CncServerStarts == \E k \in CurrentKeys : MakeCNCServer(k)
CncRequest ==
    \E route \in CncRoutes, m \in CncMethods, c \in CncCerts, req \in CncBodies,
       ok \in BOOLEAN : CncServe(route, m, c, req, ok)

ControlNext ==
    \/ CncServerStarts
    \/ CncRequest

ControlSpec == Init /\ [][ControlNext]_vars

(***************************************************************************)
(* The agent's command execution (runCommand, outputSender).               *)
(***************************************************************************)
\* data messages the two outputSender tasks pass on in one behaviour
MaxOut == 3

Channels == {"STDOUT", "STDERR"}

\* The CommandRequest.Id of the command the agent runs.
CommandId == 7

\* makeCommandFailed(req, err, message)
makeCommandFailed(id, err, message) ==
    [kind |-> "CommandTermination", Id |-> id, ExitCode |-> 127,
     Message |-> IF err # "" THEN <<message, err>> ELSE <<message>>]

\* makeCommandTermination(req, exitstatus)
makeCommandTermination(id, exitstatus) ==
    [kind |-> "CommandTermination", Id |-> id, ExitCode |-> exitstatus, Message |-> <<>>]

\* makeCommandData(req, channel, data)
makeCommandData(id, channel, data) ==
    [kind |-> "CommandData", Id |-> id, Channel |-> channel, Body |-> data, Closed |-> FALSE]

\* makeCommandDataClosed(req, channel)
makeCommandDataClosed(id, channel) ==
    [kind |-> "CommandData", Id |-> id, Channel |-> channel, Body |-> <<>>, Closed |-> TRUE]

\* outputMessage
outputMessage(channel, value, closed) == [channel |-> channel, value |-> value, closed |-> closed]

\* What in.Read(buffer) can return: n bytes (none when data is empty) and an
\* error: "" (nil), "EOF", or another error.
ReadResult(data, err) == [data |-> data, err |-> err]
ReadResults ==
    {ReadResult(<<"a">>, ""), ReadResult(<<"b", "c">>, ""), ReadResult(<<"a">>, "EOF"),
     ReadResult(<<>>, "EOF"), ReadResult(<<>>, "closed pipe")}

\* Variant of outputSender that keeps reading after it sent closed.
outputSenderNoReturn(channel, rd) ==
    [msgs |-> (IF Len(rd.data) > 0 THEN <<outputMessage(channel, rd.data, FALSE)>> ELSE <<>>)
                  \o (IF rd.err # "" THEN <<outputMessage(channel, <<>>, TRUE)>> ELSE <<>>),
     returned |-> FALSE]

\* One turn of outputSender's loop on the read result rd: the messages it
\* sends on the aggregation channel, and whether it returns.
outputSender(channel, rd) ==
    [msgs |-> (IF Len(rd.data) > 0 THEN <<outputMessage(channel, rd.data, FALSE)>> ELSE <<>>)
                  \o (IF rd.err # "" THEN <<outputMessage(channel, <<>>, TRUE)>> ELSE <<>>),
     returned |-> rd.err # ""]

\* Variant of the loop over agg that leaves at the first closed message.
rangeAggFirstClosed(l, msg) ==
    IF l.done THEN l
    ELSE IF msg.closed
    THEN [l EXCEPT !.dataflow = Append(@, makeCommandDataClosed(CommandId, msg.channel)),
                   !.activeCount = @ - 1,
                   !.done = TRUE]
    ELSE [l EXCEPT !.dataflow = Append(@, makeCommandData(CommandId, msg.channel, msg.value))]

\* One turn of `for msg := range agg` on the locals l = (activeCount,
\* dataflow, done); once the loop is left nothing is received from agg.
rangeAgg(l, msg) ==
    IF l.done THEN l
    ELSE IF msg.closed
    THEN [l EXCEPT !.dataflow = Append(@, makeCommandDataClosed(CommandId, msg.channel)),
                   !.activeCount = @ - 1,
                   !.done = (l.activeCount - 1 = 0)]
    ELSE [l EXCEPT !.dataflow = Append(@, makeCommandData(CommandId, msg.channel, msg.value))]

RECURSIVE rangeAggAll(_, _)
rangeAggAll(l, msgs) ==
    IF msgs = <<>> THEN l ELSE rangeAggAll(rangeAgg(l, msgs[1]), Tail(msgs))

\* How the child ended, and the error cmd.Wait() returns besides: "" when
\* Wait reports the child's end itself (nil or *exec.ExitError), otherwise an
\* error of another type.  status is syscall.WaitStatus.ExitStatus(): the
\* exit status of a child that exited, -1 for one a signal killed.
WaitResult(how, status, err) == [how |-> how, status |-> status, err |-> err]
WaitResults ==
    {WaitResult("exited", 0, ""), WaitResult("exited", 1, ""), WaitResult("exited", 3, ""),
     WaitResult("signaled", 9, ""), WaitResult("exited", 0, "wait: no child processes")}

\* syscall.WaitStatus.ExitStatus(): the exit code of a child that exited,
\* -1 for one that a signal ended.
ExitStatus(wr) == IF wr.how = "exited" THEN wr.status ELSE -1

\* Variant of waitTermination that reports success whatever Wait() returned
\* for a child that ran.
waitTerminationZero(wr) ==
    IF wr.err # "" THEN makeCommandFailed(CommandId, wr.err, "Wait()")
    ELSE makeCommandTermination(CommandId, 0)

\* The frame runCommand emits after cmd.Wait(): Wait() returns nil for a
\* child that exited 0, an *exec.ExitError carrying the wait status for one
\* that exited non-zero or was signaled, and another error otherwise.
waitTermination(wr) ==
    IF wr.err # "" THEN makeCommandFailed(CommandId, wr.err, "Wait()")
    ELSE IF wr.how = "exited" /\ wr.status = 0 THEN makeCommandTermination(CommandId, 0)
    ELSE makeCommandTermination(CommandId, ExitStatus(wr))

\* Where spawning the child can fail, "ok" when cmd.Start() succeeded.
SpawnOutcomes == {"StdoutPipe()", "StderrPipe()", "Start()", "ok"}

\* The agent's table of cancel functions, keyed by request id.
registerCancelFunction(table, id) == table \cup {id}

\* Variant of unregisterCancelFunction that leaves the entry in the table.
unregisterCancelFunctionKept(table, id) == table

unregisterCancelFunction(table, id) == table \ {id}

\* runCommand is entered for the CommandRequest: the cancel function of its
\* context is registered, and its removal deferred to the return.
runCommandEnter ==
    /\ cmdPc = "idle"
    /\ cancelTable' = registerCancelFunction(cancelTable, CommandId)
    /\ cmdPc' = "entered"
    /\ UNCHANGED <<cmdRun, activeCount, sender, dataflow, httpVars, cncVars, toolVars, extVars>>

\* runCommand from the creation of the pipes to the loop over agg.  The two
\* outputSender tasks are started before cmd.Start().
runCommandStart(spawn) ==
    /\ cmdPc = "entered"
    /\ cmdRun' = [spawn |-> spawn, exit |-> ""]
    /\ IF spawn \in {"StdoutPipe()", "StderrPipe()"}
       THEN /\ dataflow' = Append(dataflow, makeCommandFailed(CommandId, "pipe", spawn))
            /\ cancelTable' = unregisterCancelFunction(cancelTable, CommandId)
            /\ cmdPc' = "returned"
            /\ UNCHANGED <<activeCount, sender>>
       ELSE IF spawn = "Start()"
       THEN /\ sender' = [ch \in Channels |-> "running"]
            /\ dataflow' = Append(dataflow, makeCommandFailed(CommandId, "not found", spawn))
            /\ cancelTable' = unregisterCancelFunction(cancelTable, CommandId)
            /\ cmdPc' = "returned"
            /\ UNCHANGED activeCount
       ELSE /\ sender' = [ch \in Channels |-> "running"]
            /\ activeCount' = 2
            /\ cmdPc' = "loop"
            /\ UNCHANGED <<dataflow, cancelTable>>
    /\ UNCHANGED <<httpVars, cncVars, toolVars, extVars>>

DataCount == Cardinality({i \in 1..Len(dataflow) :
                             dataflow[i].kind = "CommandData" /\ ~dataflow[i].Closed})

\* The outputSender of channel ch gets rd from its pipe and hands its
\* messages to the loop of runCommand, which puts them on dataflow.  A
\* sender whose messages nobody receives any more stays blocked in its send.
senderRead(ch, rd) ==
    LET o == outputSender(ch, rd)
        l == rangeAggAll([activeCount |-> activeCount, dataflow |-> dataflow, done |-> FALSE],
                         o.msgs)
    IN  /\ cmdPc = "loop"
        /\ sender[ch] = "running"
        /\ Len(rd.data) > 0 => DataCount < MaxOut
        /\ sender' = [sender EXCEPT ![ch] = IF o.returned THEN "returned" ELSE @]
        /\ activeCount' = l.activeCount
        /\ dataflow' = l.dataflow
        /\ cmdPc' = IF l.done THEN "wait" ELSE "loop"
        /\ UNCHANGED <<cmdRun, cancelTable, httpVars, cncVars, toolVars, extVars>>

\* Variant of commandWait without the return after the *exec.ExitError
\* branch: the frame with the child's status is followed by the one with 0.
commandWaitNoReturn(wr) ==
    /\ cmdPc = "wait"
    /\ cmdRun' = [cmdRun EXCEPT !.exit = wr]
    /\ dataflow' = IF wr.err = "" /\ ~(wr.how = "exited" /\ wr.status = 0)
                   THEN dataflow \o <<waitTermination(wr), makeCommandTermination(CommandId, 0)>>
                   ELSE Append(dataflow, waitTermination(wr))
    /\ cancelTable' = unregisterCancelFunction(cancelTable, CommandId)
    /\ cmdPc' = "returned"
    /\ UNCHANGED <<activeCount, sender, httpVars, cncVars, toolVars, extVars>>

\* cmd.Wait() returns and runCommand emits the termination frame.
commandWait(wr) ==
    /\ cmdPc = "wait"
    /\ cmdRun' = [cmdRun EXCEPT !.exit = wr]
    /\ dataflow' = Append(dataflow, waitTermination(wr))
    /\ cancelTable' = unregisterCancelFunction(cancelTable, CommandId)
    /\ cmdPc' = "returned"
    /\ UNCHANGED <<activeCount, sender, httpVars, cncVars, toolVars, extVars>>

\* runCommand has returned on the failure of cmd.Start(), after it launched
\* the two outputSender tasks.  No child holds the pipes, so the Read of the
\* task of channel ch returns rd without data; the task then sends its closed
\* message on agg, which is unbuffered and which nobody receives from any
\* more, and stays in that send.
senderStranded(ch, rd) ==
    /\ cmdPc = "returned"
    /\ sender[ch] = "running"
    /\ rd.data = <<>>
    /\ outputSender(ch, rd).msgs # <<>>
    /\ sender' = [sender EXCEPT ![ch] = "blocked"]
    /\ UNCHANGED <<cmdPc, cmdRun, activeCount, dataflow, cancelTable,
                   httpVars, cncVars, toolVars, extVars>>

CommandStarts == \E spawn \in SpawnOutcomes : runCommandStart(spawn)
SenderReads == \E ch \in Channels, rd \in ReadResults : senderRead(ch, rd)
CommandWaits == \E wr \in WaitResults : commandWait(wr)
SenderStrands == \E ch \in Channels, rd \in ReadResults : senderStranded(ch, rd)

CommandNext ==
    \/ runCommandEnter
    \/ CommandStarts
    \/ SenderReads
    \/ CommandWaits
    \/ SenderStrands

CommandSpec == Init /\ [][CommandNext]_vars

(***************************************************************************)
(* The command tool (remote-command): runCommand sends the request and     *)
(* then receives frames until a CommandTermination or the end of the       *)
(* stream.                                                                 *)
(***************************************************************************)
\* Frames the tool receives before the stream ends, at most.
MaxToolFrames == 3

\* os.Exit(code): the status the parent observes is the low 8 bits of code.
osExit(code) == code % 256

\* log.Fatalf: one line on stderr, then os.Exit(1).
logFatalf(t, text) ==
    [t EXCEPT !.stderr = Append(@, [kind |-> "log", data |-> <<text>>]),
              !.exit = osExit(1)]

\* ControllerToCmdToolWrapper events: CommandData, CommandTermination, no
\* event at all, and an event of another type.
ToolData(channel, body) == [kind |-> "CommandData", Channel |-> channel, Body |-> body]
ToolTermination(code, message) ==
    [kind |-> "CommandTermination", ExitCode |-> code, Message |-> message]
ToolFrames ==
    {ToolData(ch, b) : ch \in {"STDIN", "STDOUT", "STDERR"}, b \in {<<"a">>, <<"b", "c">>}}
        \cup {ToolData(ch, <<>>) : ch \in {"STDOUT", "STDERR"}}
        \cup {ToolTermination(0, <<>>), ToolTermination(1, <<>>), ToolTermination(-1, <<>>),
              ToolTermination(127, <<"Start()", "not found">>)}
        \cup {[kind |-> "nil"], [kind |-> "unknown"]}

\* Variant of recvEvent that writes every CommandData body to stdout.
recvEventAllStdout(t, in) ==
    IF in.kind = "CommandData"
    THEN [t EXCEPT !.stdout = Append(@, [kind |-> "body", data |-> in.Body])]
    ELSE IF in.kind = "CommandTermination"
    THEN [t EXCEPT !.stderr = IF Len(in.Message) > 0
                                THEN Append(@, [kind |-> "message", data |-> in.Message])
                                ELSE @,
                   !.exit = osExit(in.ExitCode)]
    ELSE IF in.kind = "nil" THEN t
    ELSE [t EXCEPT !.stderr = Append(@, [kind |-> "log", data |-> <<"unknown message">>])]

\* The switch on in.Event in the receiving task; t holds what the tool has
\* written to its stdout and stderr and its exit status (-1 while it runs).
recvEvent(t, in) ==
    IF in.kind = "CommandData"
    THEN IF in.Channel = "STDOUT"
         THEN [t EXCEPT !.stdout = Append(@, [kind |-> "body", data |-> in.Body])]
         ELSE [t EXCEPT !.stderr = Append(@, [kind |-> "body", data |-> in.Body])]
    ELSE IF in.kind = "CommandTermination"
    THEN [t EXCEPT !.stderr = IF Len(in.Message) > 0
                                THEN Append(@, [kind |-> "message", data |-> in.Message])
                                ELSE @,
                   !.exit = osExit(in.ExitCode)]
    ELSE IF in.kind = "nil" THEN t
    ELSE [t EXCEPT !.stderr = Append(@, [kind |-> "log", data |-> <<"unknown message">>])]

ToolLocals == [stdout |-> toolStdout, stderr |-> toolStderr, exit |-> toolExit]

ToolBecomes(t) ==
    /\ toolStdout' = t.stdout
    /\ toolStderr' = t.stderr
    /\ toolExit' = t.exit
    /\ toolPc' = IF t.exit = -1 THEN "recv" ELSE "exited"

\* runCommand up to the start of the receiving task: opening the stream or
\* sending the request can fail.
toolRunCommand(outcome) ==
    /\ toolPc = "new"
    /\ IF outcome = "ok"
       THEN ToolBecomes(ToolLocals)
       ELSE ToolBecomes(logFatalf(ToolLocals, outcome))
    /\ UNCHANGED <<toolIn, httpVars, cncVars, cmdVars, extVars>>

\* stream.Recv() returns a frame.
toolRecv(in) ==
    /\ toolPc = "recv"
    /\ in.kind # "CommandTermination" => Len(toolIn) < MaxToolFrames
    /\ toolIn' = Append(toolIn, in)
    /\ ToolBecomes(recvEvent(ToolLocals, in))
    /\ UNCHANGED <<httpVars, cncVars, cmdVars, extVars>>

\* stream.Recv() returns io.EOF: the task closes waitc, and runCommand
\* closes the stream and ends in log.Fatalf.
toolRecvEOF ==
    /\ toolPc = "recv"
    /\ ToolBecomes(logFatalf(ToolLocals, "While closing stream"))
    /\ UNCHANGED <<toolIn, httpVars, cncVars, cmdVars, extVars>>

\* stream.Recv() returns another error.
toolRecvError ==
    /\ toolPc = "recv"
    /\ ToolBecomes(logFatalf(ToolLocals, "Failed to receive a message"))
    /\ UNCHANGED <<toolIn, httpVars, cncVars, cmdVars, extVars>>

ToolStarts == \E outcome \in {"ok", "EventTunnel", "while sending to stream"} :
                  toolRunCommand(outcome)
ToolReceives == \E in \in ToolFrames : toolRecv(in)

ToolNext ==
    \/ ToolStarts
    \/ ToolReceives
    \/ toolRecvEOF
    \/ toolRecvError

ToolSpec == Init /\ [][ToolNext]_vars

(***************************************************************************)
(* Headers in the HTTP adapters: makeHeaders on the inbound request's      *)
(* headers, and the copy of the agent's headers to the inbound response    *)
(* in the HttpResponse case of the handlers' loop.                         *)
(***************************************************************************)
\* header lines of an inbound request, and HttpResponse frames one
\* transaction processes, at most
MaxLines == 2
MaxHdrResp == 2

\* http.Header: a map from canonical names to value lists.
EmptyHeader == [n \in {} |-> <<>>]

\* textproto.CanonicalMIMEHeaderKey on the names of the model.
CanonicalMIMEHeaderKey(name) ==
    IF name \in {"accept-encoding", "Accept-Encoding"} THEN "Accept-Encoding"
    ELSE IF name \in {"x-a", "X-A"} THEN "X-A"
    ELSE name

\* Header.Add and Header.Del
HeaderAdd(h, name, value) ==
    LET k == CanonicalMIMEHeaderKey(name) IN
    [n \in DOMAIN h \cup {k} |->
        IF n # k THEN h[n]
        ELSE IF k \in DOMAIN h THEN Append(h[k], value) ELSE <<value>>]

HeaderDel(h, name) ==
    [n \in DOMAIN h \ {CanonicalMIMEHeaderKey(name)} |-> h[n]]

\* net/http reads the request's header lines into r.Header.
RECURSIVE ReadHeader(_, _)
ReadHeader(h, lines) ==
    IF lines = <<>> THEN h
    ELSE ReadHeader(HeaderAdd(h, Head(lines).name, Head(lines).value), Tail(lines))

Line(name, value) == [name |-> name, value |-> value]
WireLines ==
    {Line(n, v) : n \in {"accept-encoding", "Accept-Encoding", "x-a", "X-B"}, v \in {"1", "2"}}
Wires == UNION {[1..k -> WireLines] : k \in 0..MaxLines}

\* The orders in which `for name, values := range headers` can visit a map.
RangeOrders(h) ==
    {o \in [1..Cardinality(DOMAIN h) -> DOMAIN h] :
        \A i, j \in DOMAIN o : i # j => o[i] # o[j]}

\* tunnel.HttpHeader
HttpHeader(name, values) == [Name |-> name, Values |-> values]

\* Variant of makeHeaders without the test on the name.
makeHeadersUnfiltered(headers, order) ==
    [i \in 1..Len(order) |-> HttpHeader(order[i], headers[order[i]])]

\* makeHeaders(headers), the map ranged over in the given order.
makeHeaders(headers, order) ==
    LET kept == SelectSeq(order, LAMBDA name : name # "Accept-Encoding")
    IN  [i \in 1..Len(kept) |-> HttpHeader(kept[i], headers[kept[i]])]

\* The headers of the HttpResponse frames of the model.
HdrResponse(headers, cl) == [Headers |-> headers, ContentLength |-> cl]
HdrResponses ==
    {HdrResponse(<<HttpHeader("X-A", <<"1">>)>>, -1),
     HdrResponse(<<HttpHeader("X-B", <<"2", "3">>)>>, -1),
     HdrResponse(<<HttpHeader("X-A", <<"4">>), HttpHeader("X-B", <<"2">>)>>, 0),
     HdrResponse(<<>>, -1)}

\* `for name := range w.Header() { r.Header.Del(name) }`
RECURSIVE delNames(_, _)
delNames(h, names) ==
    IF names = {} THEN h
    ELSE LET name == CHOOSE n \in names : TRUE
         IN  delNames(HeaderDel(h, name), names \ {name})

\* `for _, header := range resp.Headers { for _, value := range
\* header.Values { w.Header().Add(header.Name, value) } }`
RECURSIVE addValues(_, _, _)
addValues(h, name, values) ==
    IF values = <<>> THEN h
    ELSE addValues(HeaderAdd(h, name, Head(values)), name, Tail(values))

RECURSIVE addHeaders(_, _)
addHeaders(h, headers) ==
    IF headers = <<>> THEN h
    ELSE addHeaders(addValues(h, Head(headers).Name, Head(headers).Values), Tail(headers))

\* The two loops of the HttpResponse case on r.Header and w.Header().
apiResponseHeaders(rh, wh, resp) ==
    [r |-> delNames(rh, DOMAIN wh), w |-> addHeaders(wh, resp.Headers)]

\* The same two loops in the HttpResponse case of kubernetesAPIHandler.
kubernetesResponseHeaders(rh, wh, resp) ==
    LET deleted == delNames(rh, DOMAIN wh)
        added == addHeaders(wh, resp.Headers)
    IN  [r |-> deleted, w |-> added]

\* The adapter reads the request and forwards it: r.Header as net/http
\* built it, HttpRequest.Headers from makeHeaders; w.Header() starts empty.
hdrRequest(wire, order) ==
    /\ hdrPc = "new"
    /\ hdrWire' = wire
    /\ rHeader' = ReadHeader(EmptyHeader, wire)
    /\ fwdHeaders' = makeHeaders(ReadHeader(EmptyHeader, wire), order)
    /\ hdrPc' = "recv"
    /\ UNCHANGED <<wHeader, sentHeader, hdrResps>>
    /\ UNCHANGED <<httpVars, cncVars, cmdVars, toolVars, tunVars, bufVars>>

\* The adapter processes an HttpResponse: the two loops, then WriteHeader,
\* whose first call sends w.Header() to the caller, then the return when
\* contentLength is 0.
hdrHttpResponse(resp) ==
    LET hs == apiResponseHeaders(rHeader, wHeader, resp) IN
    /\ hdrPc = "recv"
    /\ Len(hdrResps) < MaxHdrResp
    /\ rHeader' = hs.r
    /\ wHeader' = hs.w
    /\ sentHeader' = IF sentHeader.sent THEN sentHeader
                     ELSE [sent |-> TRUE, header |-> hs.w]
    /\ hdrResps' = Append(hdrResps, resp)
    /\ hdrPc' = IF resp.ContentLength = 0 THEN "done" ELSE "recv"
    /\ UNCHANGED <<hdrWire, fwdHeaders>>
    /\ UNCHANGED <<httpVars, cncVars, cmdVars, toolVars, tunVars, bufVars>>

HeaderRequests ==
    \E wire \in Wires : \E order \in RangeOrders(ReadHeader(EmptyHeader, wire)) :
        hdrRequest(wire, order)
HeaderResponses == \E resp \in HdrResponses : hdrHttpResponse(resp)

HeaderNext ==
    \/ HeaderRequests
    \/ HeaderResponses

HeaderSpec == Init /\ [][HeaderNext]_vars

(***************************************************************************)
(* The agent's runTunnel: the receiving task takes the controller's frames *)
(* from the stream one at a time; for an HttpRequest it calls the local    *)
(* server and sends an HttpResponse back.                                  *)
(***************************************************************************)
\* What handling an HttpRequest can come to: client.Do fails, stream.Send
\* of the response fails, or the response is sent.
DoOutcomes == {"ok", "Do", "Send"}

\* Variant of tunnelHttpResponse that leaves the id empty.
tunnelHttpResponseNoId(req, status) ==
    [kind |-> "HttpResponse", Id |-> NoID, Status |-> status]

\* The ASEventWrapper_HttpResponse runTunnel builds for req.
tunnelHttpResponse(req, status) ==
    [kind |-> "HttpResponse", Id |-> req.id, Status |-> status]

\* One turn of the receiving task's loop in the agent of session s.
runTunnel(s, outcome) ==
    LET in == outbound[s][agentPos[s] + 1] IN
    /\ sess[s] = "ready"
    /\ agentPos[s] < Len(outbound[s])
    /\ agentPos' = [agentPos EXCEPT ![s] = @ + 1]
    /\ IF in.kind = "HttpRequest"
       THEN /\ agentDone' = [agentDone EXCEPT ![s] =
                                Append(@, [id |-> in.id, outcome |-> outcome])]
            /\ agentOut' = [agentOut EXCEPT ![s] =
                               IF outcome = "ok"
                               THEN Append(@, tunnelHttpResponse(in, StatusOK))
                               ELSE @]
       ELSE /\ outcome = "ok"
            /\ UNCHANGED <<agentOut, agentDone>>
    /\ UNCHANGED <<httpVars, cncVars, cmdVars, toolVars, hdrVars, bufVars>>

AgentHandles == \E s \in Sessions, outcome \in DoOutcomes : runTunnel(s, outcome)

\* In one behaviour the agent either serves the HTTP requests of one
\* session or runs a command; the two paths share no state.
TunnelServiceRequest == cmdPc = "idle" /\ ServiceRequest
TunnelKubeRequest == cmdPc = "idle" /\ KubeRequest
TunnelConnects == cmdPc = "idle" /\ nsess = 0 /\ AgentConnects
TunnelCommand == nreq = 0 /\ nsess = 0 /\ runCommandEnter

TunnelNext ==
    \/ TunnelServiceRequest
    \/ TunnelKubeRequest
    \/ TunnelConnects
    \/ SessionCloses
    \/ MailboxClosed
    \/ CallerGone
    \/ Watcher
    \/ AgentHandles
    \/ TunnelCommand
    \/ CommandStarts
    \/ SenderReads
    \/ CommandWaits
    \/ SenderStrands

TunnelSpec == Init /\ [][TunnelNext]_vars

(***************************************************************************)
(* The memory of one outputSender task: its read buffer, the arrays it     *)
(* allocates, and the byte slices its messages carry.  A slice names the   *)
(* array it views (0: the read buffer, k > 0: the k-th allocated array,    *)
(* -1: emptyBytes) and its length; makeCommandData and the stream writer   *)
(* pass the slice on as it is, so the bytes a frame carries are the        *)
(* array's bytes at the moment the frame is serialised.                    *)
(***************************************************************************)
Slice(arr, n) == [arr |-> arr, n |-> n]
emptyBytes == Slice(-1, 0)

\* The bytes a slice views, given the buffer and the allocated arrays.
Deref(sl, buf, allocs) ==
    IF sl.arr = -1 THEN <<>>
    ELSE SubSeq(IF sl.arr = 0 THEN buf ELSE allocs[sl.arr], 1, sl.n)

\* in.Read(buffer) returning data: the first Len(data) bytes of the buffer
\* are overwritten.
readInto(buf, data) == data \o SubSeq(buf, Len(data) + 1, Len(buf))

\* Variant of senderValue that sends buffer[:n] itself.
senderValueView(buf, allocs, n) == [tmps |-> allocs, value |-> Slice(0, n)]

\* `tmp := make([]byte, n); copy(tmp, buffer[:n])`: the value of the
\* message is a fresh array holding the first n bytes of the buffer.
senderValue(buf, allocs, n) ==
    [tmps |-> Append(allocs, SubSeq(buf, 1, n)), value |-> Slice(Len(allocs) + 1, n)]

\* One turn of outputSender's loop, with its memory: the read, the copy,
\* the data message, and on EOF or an error the closed message and return.
bufRead(rd) ==
    LET n == Len(rd.data)
        buf == readInto(buffer, rd.data)
        v == senderValue(buf, tmps, n)
        data == IF n > 0 THEN <<outputMessage("STDOUT", v.value, FALSE)>> ELSE <<>>
        closed == IF rd.err # "" THEN <<outputMessage("STDOUT", emptyBytes, TRUE)>> ELSE <<>>
    IN  /\ bufPc = "running"
        /\ n > 0 => Len(bufReads) < MaxBufReads
        /\ buffer' = buf
        /\ tmps' = IF n > 0 THEN v.tmps ELSE tmps
        /\ bufReads' = IF n > 0 THEN Append(bufReads, rd.data) ELSE bufReads
        /\ bufMsgs' = bufMsgs \o data \o closed
        /\ bufPc' = IF rd.err # "" THEN "returned" ELSE "running"
        /\ UNCHANGED bufWire
        /\ UNCHANGED <<httpVars, cncVars, cmdVars, toolVars, hdrVars, tunVars>>

\* The stream writer serialises the next frame: the body on the wire is
\* what the frame's slice views at that moment.  The task may have read
\* again in the meantime.
bufMarshal ==
    /\ Len(bufWire) < Len(bufMsgs)
    /\ bufWire' = Append(bufWire, Deref(bufMsgs[Len(bufWire) + 1].value, buffer, tmps))
    /\ UNCHANGED <<buffer, tmps, bufPc, bufReads, bufMsgs>>
    /\ UNCHANGED <<httpVars, cncVars, cmdVars, toolVars, hdrVars, tunVars>>

BufferReads == \E rd \in ReadResults : bufRead(rd)

BufferNext ==
    \/ BufferReads
    \/ bufMarshal

BufferSpec == Init /\ [][BufferNext]_vars

(***************************************************************************)
(* Vocabulary of the properties.                                           *)
(***************************************************************************)
Last(seq) == seq[Len(seq)]

IsPrefix(a, b) == Len(a) <= Len(b) /\ SubSeq(b, 1, Len(a)) = a

\* The concatenation of the HttpChunkedResponse bodies of a frame sequence.
RECURSIVE ChunkBytes(_)
ChunkBytes(fs) ==
    IF fs = <<>> THEN <<>>
    ELSE IF fs[1].kind = "HttpChunkedResponse"
    THEN fs[1].body \o ChunkBytes(Tail(fs))
    ELSE ChunkBytes(Tail(fs))

Dispatched(r) == transactionID[r] # NoID /\ sessionID[r] # NoSession

HeaderAt(r) == {i \in 1..Len(received[r]) : received[r][i].kind = "HttpResponse"}

ChunkAt(r) == {i \in 1..Len(received[r]) : received[r][i].kind = "HttpChunkedResponse"}

\* The handler has been sent exactly one HttpResponse, as its first frame.
SingleHeader(r) == HeaderAt(r) = {1}

(***************************************************************************)
(* C3. Ordering: the bytes written to the caller's body are a prefix of    *)
(* the concatenation of the HttpChunkedResponse bodies in the order the    *)
(* agent emitted them; no chunk is written twice, reordered or skipped     *)
(* with a later one written.                                               *)
(***************************************************************************)
C3_Ordering ==
    \A r \in Requests :
        transactionID[r] # NoID => IsPrefix(Body(w[r]), ChunkBytes(emitted[r]))

\* Three body bytes from two chunks were written, and a chunk the agent
\* emitted after cancellation is not among them.
C3_Witness ==
    \E r \in Requests :
        /\ Body(w[r]) = <<"a", "b", "c">>
        /\ cancels[r] # <<>>
        /\ Len(ChunkBytes(emitted[r])) > 3

(***************************************************************************)
(* C4. No-body response: on an HttpResponse with contentLength = 0 the     *)
(* handler writes the status and returns at once with cleanClose set; it   *)
(* takes no further frame and writes nothing after the status.             *)
(***************************************************************************)
C4_NoBody ==
    \A r \in Requests : \A i \in HeaderAt(r) :
        received[r][i].contentLength = 0 =>
            /\ i = Len(received[r])
            /\ pc[r] = "done"
            /\ cleanClose[r]
            /\ Last(w[r]) = Call("WriteHeader", received[r][i].status, <<>>)
            /\ (i = 1 => w[r] = <<Call("WriteHeader", received[r][i].status, <<>>)>>)

\* The agent kept emitting frames after a contentLength = 0 response.
C4_Witness ==
    \E r \in Requests :
        /\ received[r] = <<HttpResponse(StatusOK, 0)>>
        /\ Status(w[r]) = StatusOK
        /\ Body(w[r]) = <<>>
        /\ pc[r] = "done"
        /\ Len(emitted[r]) > 1


(***************************************************************************)
(* C5, as stated. Fixed length: after an HttpResponse with contentLength   *)
(* = n > 0 the handler never writes more than n body bytes, and it has     *)
(* returned as soon as the n-th byte is written.                           *)
(***************************************************************************)
C5_ExactlyN ==
    \A r \in Requests :
        (SingleHeader(r) /\ received[r][1].contentLength > 0) =>
            /\ Len(Body(w[r])) <= received[r][1].contentLength
            /\ (Len(Body(w[r])) = received[r][1].contentLength => pc[r] = "done")

(***************************************************************************)
(* C5, amended. Fixed length: after an HttpResponse with contentLength     *)
(* = n > 0 the handler does not count bytes against n. It writes every     *)
(* non-empty chunk body it takes, unflushed, and it returns only on the    *)
(* first empty chunk (with cleanClose set) or when the mailbox is closed.  *)
(***************************************************************************)
C5_FixedLength ==
    \A r \in Requests :
        (SingleHeader(r) /\ received[r][1].contentLength > 0) =>
            /\ Body(w[r]) = ChunkBytes(received[r])
            /\ \A i \in 1..Len(w[r]) : w[r][i].op # "Flush"
            /\ pc[r] = "done" =>
                   \/ Last(received[r]) = ClosedEvent
                   \/ Last(received[r]) = HttpChunkedResponse(<<>>)
            /\ \A i \in ChunkAt(r) :
                   received[r][i].body = <<>> =>
                       i = Len(received[r]) /\ pc[r] = "done" /\ cleanClose[r]

\* contentLength = 2: the handler was still receiving after the second
\* byte, wrote a third, and finished at the empty chunk.
C5_Witness ==
    \E r \in Requests :
        /\ received[r] = <<HttpResponse(StatusOK, 2), HttpChunkedResponse(<<"b", "c">>),
                           HttpChunkedResponse(<<"a">>), HttpChunkedResponse(<<>>)>>
        /\ Body(w[r]) = <<"b", "c", "a">>
        /\ pc[r] = "done"
        /\ cleanClose[r]

(***************************************************************************)
(* C6. Chunked: after an HttpResponse with contentLength < 0 every         *)
(* non-empty chunk is written and flushed before the next frame is taken,  *)
(* and the transaction ends cleanly at the first empty chunk.              *)
(***************************************************************************)
C6_Chunked ==
    \A r \in Requests :
        (SingleHeader(r) /\ received[r][1].contentLength < 0) =>
            /\ Body(w[r]) = ChunkBytes(received[r])
            /\ \A i \in 1..Len(w[r]) :
                   w[r][i].op = "Write" => i < Len(w[r]) /\ w[r][i + 1].op = "Flush"
            /\ Cardinality({i \in 1..Len(w[r]) : w[r][i].op = "Flush"})
                   = Cardinality({i \in ChunkAt(r) : received[r][i].body # <<>>})
            /\ \A i \in ChunkAt(r) :
                   received[r][i].body = <<>> =>
                       i = Len(received[r]) /\ pc[r] = "done" /\ cleanClose[r]

\* Chunks a, bc, empty: status 200, body abc, each chunk flushed.
C6_Witness ==
    \E r \in Requests :
        /\ received[r] = <<HttpResponse(StatusOK, -1), HttpChunkedResponse(<<"a">>),
                           HttpChunkedResponse(<<"b", "c">>), HttpChunkedResponse(<<>>)>>
        /\ Status(w[r]) = StatusOK
        /\ Body(w[r]) = <<"a", "b", "c">>
        /\ w[r] = <<Call("WriteHeader", StatusOK, <<>>),
                    Call("Write", 0, <<"a">>), Call("Flush", 0, <<>>),
                    Call("Write", 0, <<"b", "c">>), Call("Flush", 0, <<>>)>>
        /\ pc[r] = "done"
        /\ cleanClose[r]

(***************************************************************************)
(* C7. Protocol order: a chunk taken before any HttpResponse makes the     *)
(* handler respond 502, write no chunk body, and end the transaction.      *)
(***************************************************************************)
C7_ChunkBeforeHeader ==
    \A r \in Requests : \A i \in ChunkAt(r) :
        (\A j \in HeaderAt(r) : j > i) =>
            /\ i = Len(received[r])
            /\ pc[r] = "done"
            /\ Status(w[r]) = StatusBadGateway
            /\ Body(w[r]) = <<>>
            /\ WriteHeaderCalls(w[r]) = <<Call("WriteHeader", StatusBadGateway, <<>>)>>

\* A non-empty chunk arrived first (after an ignored frame); the agent
\* still emitted a header afterwards.
C7_Witness ==
    \E r \in Requests :
        /\ received[r] = <<OtherEvent, HttpChunkedResponse(<<"a">>)>>
        /\ Status(w[r]) = StatusBadGateway
        /\ pc[r] = "done"
        /\ Len(emitted[r]) > 2

(***************************************************************************)
(* C8. Premature close: when the mailbox is closed before the transaction  *)
(* is done the handler returns; it responds 502 exactly when it has taken  *)
(* no HttpResponse, and otherwise writes no second status and keeps the    *)
(* status and the bytes already written.                                   *)
(***************************************************************************)
C8_PrematureClose ==
    \A r \in Requests :
        (received[r] # <<>> /\ Last(received[r]) = ClosedEvent) =>
            /\ pc[r] = "done"
            /\ (HeaderAt(r) = {}) <=> (Status(w[r]) = StatusBadGateway)
            /\ HeaderAt(r) = {} => w[r] = <<Call("WriteHeader", StatusBadGateway, <<>>)>>
            /\ HeaderAt(r) # {} =>
                   /\ WriteHeaderCalls(w[r]) = [i \in 1..Cardinality(HeaderAt(r)) |->
                                                 Call("WriteHeader", StatusOK, <<>>)]
                   /\ Body(w[r]) = ChunkBytes(received[r])

\* The mailbox was closed after the header and one chunk were written.
C8_Witness ==
    \E r \in Requests :
        /\ received[r] = <<HttpResponse(StatusOK, -1), HttpChunkedResponse(<<"a">>), ClosedEvent>>
        /\ Status(w[r]) = StatusOK
        /\ Body(w[r]) = <<"a">>
        /\ pc[r] = "done"


\* The agent frames the handler of r has taken (without the close event).
Taken(r) == SelectSeq(received[r], LAMBDA e : e.kind # "closed")

\* The handler of r observed its mailbox closed, which makes it return.
ClosedSeen(r) == received[r] # <<>> /\ Last(received[r]) = ClosedEvent

\* The single call agents.Cancel(ep, transactionID) with ep.Session the
\* session Send returned for r.
CancelOnSendSession(r) ==
    <<[search |-> AgentSearch(ep[r].Name, ep[r].EndpointType, ep[r].EndpointName,
                              sessionID[r]),
       id |-> transactionID[r]]>>

C2_SessionCleanup ==
    /\ [](\A r \in Requests :
            /\ (Dispatched(r) /\ sess[sessionID[r]] = "closed") => mailbox[r] = "closed"
            /\ ClosedSeen(r) =>
                   /\ pc[r] = "done"
                   /\ HeaderAt(r) = {} => Status(w[r]) = StatusBadGateway)
    /\ \A r \in Requests :
            (pc[r] = "recv" /\ mailbox[r] = "closed")
                ~> (pc[r] = "done" /\ ClosedSeen(r))

\* A session closed under a handler that had taken one frame but no
\* HttpResponse; the handler returned 502 and nobody cancelled.
C2_Witness ==
    \E r \in Requests :
        /\ Dispatched(r)
        /\ sess[sessionID[r]] = "closed"
        /\ cancels[r] = <<>>
        /\ received[r] = <<OtherEvent, ClosedEvent>>
        /\ Status(w[r]) = StatusBadGateway
        /\ pc[r] = "done"

(***************************************************************************)
(* C9. No eligible agent: when Send finds no session the handler responds  *)
(* 502 and returns; no frame is enqueued, no inflight entry exists for the *)
(* request, and Cancel is never invoked (no watcher was started).          *)
(***************************************************************************)
C9_NotFound ==
    \A r \in Requests :
        (transactionID[r] # NoID /\ sessionID[r] = NoSession) =>
            /\ pc[r] = "done"
            /\ w[r] = <<Call("WriteHeader", StatusBadGateway, <<>>)>>
            /\ watcher[r] = "none"
            /\ cancels[r] = <<>>
            /\ mailbox[r] = "none"
            /\ \A s \in Sessions :
                   /\ transactionID[r] \notin inflight[s]
                   /\ \A i \in 1..Len(outbound[s]) : outbound[s][i].id # transactionID[r]

\* A service request for an endpoint no connected agent advertises, while
\* an agent is connected.
C9_Witness ==
    \E r \in Requests :
        /\ listener[r] = "service"
        /\ transactionID[r] # NoID
        /\ sessionID[r] = NoSession
        /\ Status(w[r]) = StatusBadGateway
        /\ \E s \in Sessions : sess[s] = "ready"

(***************************************************************************)
(* C10, as stated. Authentication required: a service-listener request     *)
(* with neither a valid service certificate nor a valid JWT gets HTTP 400  *)
(* and is not dispatched (no transactionID minted, nothing sent).          *)
(***************************************************************************)
C10_Rejected400 ==
    \A r \in Requests :
        (listener[r] = "service" /\ ~extractEndpoint(cert[r], auth[r]).validated) =>
            /\ Status(w[r]) = StatusBadRequest
            /\ transactionID[r] = NoID
            /\ mailbox[r] = "none"


\* The credential that authenticated service request r: the peer certificate
\* if it is a service certificate, otherwise the JWT.
Credential(r) == IF cert[r].purpose = "service" THEN cert[r] ELSE auth[r]

(***************************************************************************)
(* C11. Auth binding: for every request the service listener hands to      *)
(* Send, the AgentSearch (Name, EndpointType, EndpointName) and the        *)
(* HttpRequest (type, name) are those of the credential that authenticated *)
(* it: the service certificate's fields, or else the claims of the valid   *)
(* JWT; never the Basic-auth username or a credential that did not         *)
(* authenticate.                                                           *)
(***************************************************************************)
C11_AuthBinding ==
    \A r \in Requests :
        (listener[r] = "service" /\ transactionID[r] # NoID) =>
            /\ cert[r].purpose # "service" => (auth[r].scheme = "basic" /\ auth[r].valid)
            /\ ep[r].Name = Credential(r).agent
            /\ ep[r].EndpointType = Credential(r).type
            /\ ep[r].EndpointName = Credential(r).name
            /\ \A s \in Sessions : \A i \in 1..Len(outbound[s]) :
                   (outbound[s][i].kind = "HttpRequest" /\ outbound[s][i].id = transactionID[r]) =>
                       /\ outbound[s][i].type = Credential(r).type
                       /\ outbound[s][i].name = Credential(r).name
                       /\ advert[s] = Ident(Credential(r).agent, Credential(r).type,
                                            Credential(r).name)

\* A request authenticated by a JWT for (east, kubernetes, default), sent
\* with the username "west" and an agent certificate, reached an agent
\* while an agent "west" was connected too.
C11_Witness ==
    \E r \in Requests :
        /\ listener[r] = "service"
        /\ cert[r] = AgentCert
        /\ auth[r] = AuthAs("west", GoodJWT)
        /\ Dispatched(r)
        /\ \E s \in Sessions : sess[s] = "ready" /\ advert[s] = IdWestAws
        /\ outbound[sessionID[r]] = <<HttpRequest(transactionID[r], "kubernetes", "default")>>

(***************************************************************************)
(* C12, as stated. The Kubernetes-API listener dispatches a request only   *)
(* when the client certificate has purpose service.                        *)
(***************************************************************************)
C12_KubeServiceOnly ==
    \A r \in Requests :
        (listener[r] = "kube" /\ Dispatched(r)) => cert[r].purpose = "service"


\* The control API requests served so far.
Served == {cncReplies[i] : i \in 1..Len(cncReplies)}

\* The peer certificate of a served request parses to purpose control.
ControlPeer(e) ==
    /\ ~GetCertificateNameFromCert(e.cert).err
    /\ GetCertificateNameFromCert(e.cert).Purpose = "control"

(***************************************************************************)
(* C13. Control API gating: a request whose method is not the route's gets *)
(* 405; with the right method, a peer certificate whose name does not      *)
(* parse or whose purpose is not control gets 403; in both cases nothing   *)
(* is issued, and a handler's reply or credential exists only for the      *)
(* route's method and a control certificate.                               *)
(***************************************************************************)
C13_Gating ==
    \A e \in Served :
        /\ e.method # routes(e.route) =>
               (Status(e.w) = StatusMethodNotAllowed /\ e.issued = <<>>)
        /\ (e.method = routes(e.route) /\ ~ControlPeer(e)) =>
               (Status(e.w) = StatusForbidden /\ e.issued = <<>>)
        /\ (e.issued # <<>> \/ Status(e.w) \notin {StatusMethodNotAllowed, StatusForbidden}) =>
               (e.method = routes(e.route) /\ ControlPeer(e))

\* An agent certificate that the control API itself issued was presented
\* with the right method and refused, after a wrong-method request.
C13_Witness ==
    /\ Len(cncReplies) = 2
    /\ cncReplies[1].route = "manifest"
    /\ cncReplies[1].issued # <<>>
    /\ cncReplies[2].cert = cncReplies[1].issued[1]
    /\ cncReplies[2].method = "POST"
    /\ cncReplies[2].route = "service"
    /\ Status(cncReplies[2].w) = StatusForbidden
    /\ Len(cncIssued) = 1

(***************************************************************************)
(* C14, as stated. The certificate generateControlCredentials issues for   *)
(* {name} is a control certificate: purpose control, carrying only name.   *)
(***************************************************************************)
C14_ControlCertificate ==
    \A e \in Served :
        (e.route = "control" /\ e.issued # <<>>) =>
            e.issued = <<Cert("control", Ident("", "", e.req.Name))>>

(***************************************************************************)
(* C15. generateKubectlComponents issues (service, agentName, kubernetes,  *)
(* name) and generateAgentManifestComponents issues (agent, agentName)     *)
(* with empty type and name; a request that fails decoding or Validate     *)
(* gets 400 and no certificate.                                            *)
(***************************************************************************)
C15_IssuedNames ==
    \A e \in Served :
        (e.route \in {"kubeconfig", "manifest"} /\ e.method = "POST" /\ ControlPeer(e)) =>
            /\ (~e.req.decodes \/ ~e.req.valid) =>
                   (Status(e.w) = StatusBadRequest /\ e.issued = <<>>)
            /\ Status(e.w) = StatusOK =>
                   e.issued = <<IF e.route = "kubeconfig"
                                THEN Cert("service", Ident(e.req.AgentName, "kubernetes", e.req.Name))
                                ELSE Cert("agent", Ident(e.req.AgentName, "", ""))>>
            /\ Status(e.w) # StatusOK => (Status(e.w) = StatusBadRequest /\ e.issued = <<>>)

\* Both routes issued for agent east, and the kubectl certificate is the
\* one the service listener accepts for (east, kubernetes, default).
C15_Witness ==
    /\ Len(cncReplies) = 2
    /\ cncReplies[1].route = "kubeconfig"
    /\ cncReplies[2].route = "manifest"
    /\ cncIssued = <<Cert("service", IdEastKube), AgentCert>>
    /\ extractEndpointFromCert(cncIssued[1]).validated

(***************************************************************************)
(* C16. generateServiceCredentials replies credential type aws exactly     *)
(* when the requested type is "aws" and basic otherwise; the secret slot   *)
(* holds the token minted with the current key for the request's (type,    *)
(* name, agentName); when the current key id is not in the keyset the      *)
(* reply is 400 and no token is minted.                                    *)
(***************************************************************************)
C16_ServiceCredentials ==
    \A e \in Served :
        (e.route = "service" /\ e.method = "POST" /\ ControlPeer(e)) =>
            LET token == MakeJWT(jwtCurrentKey, e.req.Type, e.req.Name, e.req.AgentName)
                ret == e.w[1].data
            IN  /\ jwtCurrentKey \notin jwkKeyset =>
                       (Status(e.w) = StatusBadRequest /\ e.issued = <<>>)
                /\ Status(e.w) # StatusOK => (Status(e.w) = StatusBadRequest /\ e.issued = <<>>)
                /\ Status(e.w) = StatusOK =>
                       /\ e.issued = <<token>>
                       /\ (ret.CredentialType = "aws") <=> (e.req.Type = "aws")
                       /\ ret.CredentialType \in {"aws", "basic"}
                       /\ ret.CredentialType = "aws" =>
                              ret.Credential.AwsSecretAccessKey = token
                       /\ ret.CredentialType = "basic" =>
                              ret.Credential.Password = token

\* One aws and one basic credential were issued with key k1.
C16_Witness ==
    /\ Len(cncReplies) = 2
    /\ \A i \in 1..2 : cncReplies[i].route = "service" /\ Status(cncReplies[i].w) = StatusOK
    /\ cncReplies[1].w[1].data.CredentialType = "aws"
    /\ cncReplies[2].w[1].data.CredentialType = "basic"
    /\ cncIssued = <<MakeJWT("k1", "aws", "prod", "east"),
                     MakeJWT("k1", "kubernetes", "default", "east")>>


\* Positions in dataflow of the closed frame of a channel, of the data
\* frames of a channel, and of the termination frames.
ClosedAt(ch) ==
    {i \in 1..Len(dataflow) :
        dataflow[i].kind = "CommandData" /\ dataflow[i].Channel = ch /\ dataflow[i].Closed}

DataAt(ch) ==
    {i \in 1..Len(dataflow) :
        dataflow[i].kind = "CommandData" /\ dataflow[i].Channel = ch /\ ~dataflow[i].Closed}

TerminationAt == {i \in 1..Len(dataflow) : dataflow[i].kind = "CommandTermination"}

(***************************************************************************)
(* C17, as stated. On every path of runCommand, spawn failure included, a  *)
(* closed frame for STDOUT and one for STDERR precede CommandTermination.  *)
(***************************************************************************)
C17_ClosedOnEveryPath ==
    \A i \in TerminationAt : \A ch \in Channels : \E j \in ClosedAt(ch) : j < i

(***************************************************************************)
(* C17, amended. When the child was started, a closed frame for STDOUT and *)
(* one for STDERR precede CommandTermination; when a pipe could not be     *)
(* created or Start failed, CommandTermination (exit code 127) is the only *)
(* frame runCommand emits.  CommandTermination is always the last frame.   *)
(***************************************************************************)
C17_ClosedBeforeTermination ==
    \A i \in TerminationAt :
        /\ i = Len(dataflow)
        /\ cmdRun.spawn = "ok" => \A ch \in Channels : \E j \in ClosedAt(ch) : j < i
        /\ cmdRun.spawn # "ok" =>
               /\ dataflow = <<makeCommandFailed(CommandId,
                                                 IF cmdRun.spawn = "Start()" THEN "not found"
                                                 ELSE "pipe",
                                                 cmdRun.spawn)>>
               /\ dataflow[1].ExitCode = 127

\* A started command whose STDERR closed first and whose STDOUT carried
\* data terminated after both closed frames.
C17_Witness ==
    /\ cmdRun.spawn = "ok"
    /\ TerminationAt = {Len(dataflow)}
    /\ \E i \in ClosedAt("STDERR") : \E j \in DataAt("STDOUT") : \E k \in ClosedAt("STDOUT") :
           i < j /\ j < k

(***************************************************************************)
(* C18. Command closure: for a started command at most one closed frame is *)
(* emitted per channel, no data frame of a channel follows the channel's   *)
(* closed frame, and by CommandTermination each channel has exactly one,   *)
(* however the two outputSender tasks interleave.                          *)
(***************************************************************************)
C18_CommandClosure ==
    cmdRun.spawn = "ok" =>
        \A ch \in Channels :
            /\ Cardinality(ClosedAt(ch)) <= 1
            /\ \A i \in ClosedAt(ch) : \A j \in DataAt(ch) : j < i
            /\ (sender[ch] = "returned") <=> (ClosedAt(ch) # {})
            /\ TerminationAt # {} => Cardinality(ClosedAt(ch)) = 1
            /\ activeCount = 2 - Cardinality(ClosedAt("STDOUT") \cup ClosedAt("STDERR"))

\* The two tasks' frames interleaved: STDOUT data, STDERR data, STDOUT
\* closed, STDERR data, STDERR closed, termination.
C18_Witness ==
    /\ Len(dataflow) = 6
    /\ \E a \in DataAt("STDOUT"), b \in DataAt("STDERR"), cc \in ClosedAt("STDOUT"),
          d \in DataAt("STDERR"), e \in ClosedAt("STDERR") :
           a < b /\ b < cc /\ cc < d /\ d < e
    /\ TerminationAt = {6}


\* The termination frame of the command, once emitted.
Termination == dataflow[Len(dataflow)]

(***************************************************************************)
(* C19, as stated. The exit code is 127 with a non-empty message when the  *)
(* process cannot be spawned, and otherwise it is the child's exit status: *)
(* 0 exactly when the child exited successfully, the child's non-zero      *)
(* status when it exited with one.                                         *)
(***************************************************************************)
C19_ExitCodeIsChildStatus ==
    cmdPc = "returned" =>
        IF cmdRun.spawn # "ok"
        THEN Termination.ExitCode = 127 /\ Termination.Message # <<>>
        ELSE /\ (Termination.ExitCode = 0)
                   <=> (cmdRun.exit.how = "exited" /\ cmdRun.exit.status = 0)
             /\ (cmdRun.exit.how = "exited" /\ cmdRun.exit.status # 0)
                   => Termination.ExitCode = cmdRun.exit.status

(***************************************************************************)
(* C19, amended. The exit code is 127 with a non-empty message when the    *)
(* process cannot be spawned and also when Wait() fails with an error that *)
(* is not an exit error, whatever the child's status was.  Otherwise the   *)
(* message is empty and the exit code is 0 exactly when the child exited   *)
(* successfully, the child's status when it exited non-zero, and -1 when a *)
(* signal ended it.                                                        *)
(***************************************************************************)
C19_ExitCode ==
    cmdPc = "returned" =>
        /\ Termination.kind = "CommandTermination"
        /\ Termination.Id = CommandId
        /\ IF cmdRun.spawn # "ok" \/ cmdRun.exit.err # ""
           THEN Termination.ExitCode = 127 /\ Termination.Message # <<>>
           ELSE /\ Termination.Message = <<>>
                /\ (Termination.ExitCode = 0)
                      <=> (cmdRun.exit.how = "exited" /\ cmdRun.exit.status = 0)
                /\ cmdRun.exit.how = "exited" => Termination.ExitCode = cmdRun.exit.status
                /\ cmdRun.exit.how = "signaled" => Termination.ExitCode = -1

\* A child that ran and exited with status 3, reported as exit code 3.
C19_Witness ==
    /\ cmdPc = "returned"
    /\ cmdRun.spawn = "ok"
    /\ cmdRun.exit = WaitResult("exited", 3, "")
    /\ Termination.ExitCode = 3


\* The bodies the tool wrote to one of its descriptors, in order, and the
\* bodies of the CommandData frames it received for stdout (or not), in order.
BodiesWritten(fd) ==
    LET written == SelectSeq(fd, LAMBDA x : x.kind = "body")
    IN  [i \in 1..Len(written) |-> written[i].data]

IsStdoutData(in) == in.kind = "CommandData" /\ in.Channel = "STDOUT"
IsOtherData(in) == in.kind = "CommandData" /\ in.Channel # "STDOUT"

BodiesReceived(stdout) ==
    LET got == IF stdout THEN SelectSeq(toolIn, IsStdoutData)
               ELSE SelectSeq(toolIn, IsOtherData)
    IN  [i \in 1..Len(got) |-> got[i].Body]

Terminated == toolIn # <<>> /\ Last(toolIn).kind = "CommandTermination"

\* What C20 says of the output and of a stream that ends without a
\* CommandTermination.
ToolOutput ==
    /\ BodiesWritten(toolStdout) = BodiesReceived(TRUE)
    /\ BodiesWritten(toolStderr) = BodiesReceived(FALSE)
    /\ \A i \in 1..(Len(toolIn) - 1) : toolIn[i].kind # "CommandTermination"
    /\ (toolPc = "exited") <=> (toolExit # -1)
    /\ toolPc = "exited" /\ ~Terminated => toolExit # 0
    /\ toolExit = 0 => Terminated /\ Last(toolIn).ExitCode = 0

(***************************************************************************)
(* C20, as stated. cmdtool exits with exactly the exit code carried by the *)
(* CommandTermination frame it receives, after writing every earlier       *)
(* CommandData body in arrival order (STDOUT to stdout, the others to      *)
(* stderr); it exits non-zero when the stream ends or fails first, so it   *)
(* exits 0 only after CommandTermination with exitCode 0.                  *)
(***************************************************************************)
C20_ExactExitCode ==
    /\ ToolOutput
    /\ Terminated => toolPc = "exited" /\ toolExit = Last(toolIn).ExitCode

(***************************************************************************)
(* C20, amended. cmdtool exits on the CommandTermination frame it receives *)
(* with the low 8 bits of the frame's exit code: the code itself for 0 to  *)
(* 255, and 255 for the -1 the agent reports for a child that a signal     *)
(* ended.  It has then written every earlier CommandData body in arrival   *)
(* order (STDOUT to stdout, the others to stderr); it exits 1 when the     *)
(* stream ends or fails first, so it exits 0 only after CommandTermination *)
(* with exitCode 0.                                                        *)
(***************************************************************************)
C20_ExitStatus ==
    /\ ToolOutput
    /\ Terminated =>
           /\ toolPc = "exited"
           /\ Last(toolIn).ExitCode \in 0..255 => toolExit = Last(toolIn).ExitCode
           /\ Last(toolIn).ExitCode = -1 => toolExit = 255
    /\ toolPc = "exited" /\ ~Terminated => toolExit = 1

\* The tool wrote an STDERR body, then an STDOUT body, and exited 127 on
\* the termination frame of a command that could not be spawned.
C20_Witness ==
    /\ toolPc = "exited"
    /\ Len(toolIn) = 3
    /\ toolIn[1] = ToolData("STDERR", <<"a">>)
    /\ toolIn[2] = ToolData("STDOUT", <<"b", "c">>)
    /\ toolIn[3].kind = "CommandTermination"
    /\ toolExit = 127
    /\ BodiesWritten(toolStdout) = << <<"b", "c">> >>


(***************************************************************************)
(* C21. Cancellation table scoping: the cancel function is registered under *)
(* the command's request id before the child is started and before any     *)
(* frame is emitted, stays registered while runCommand runs, and is        *)
(* unregistered on every return path (pipe failure, spawn failure, Wait    *)
(* failure, non-zero exit, success): after the return the table has no     *)
(* entry for the id.                                                       *)
(***************************************************************************)
C21_CancelScoping ==
    /\ cmdPc = "idle" => cancelTable = {} /\ dataflow = <<>> /\ cmdRun.spawn = ""
    /\ cmdPc = "entered" => CommandId \in cancelTable /\ dataflow = <<>> /\ cmdRun.spawn = ""
    /\ cmdPc \in {"loop", "wait"} => CommandId \in cancelTable
    /\ cmdPc = "returned" => CommandId \notin cancelTable

\* runCommand registered, ran the child to a non-zero exit and returned.
C21_Witness ==
    /\ cmdPc = "returned"
    /\ cmdRun.spawn = "ok"
    /\ cmdRun.exit = WaitResult("exited", 1, "")
    /\ cancelTable = {}


\* The transaction of r is live: its handler was dispatched to an agent and
\* has not returned.
Live(r) == transactionID[r] # NoID /\ pc[r] = "recv"

(***************************************************************************)
(* C22. Unique requestID: across the handlers of the service listener and  *)
(* of the Kubernetes listener, which mint their ids from one generator, no *)
(* two transactions hold the same requestID, and no requestID is in the    *)
(* inflight table of two sessions.                                         *)
(***************************************************************************)
C22_UniqueRequestID ==
    /\ \A r1, r2 \in Requests :
           (r1 # r2 /\ transactionID[r1] # NoID /\ transactionID[r2] # NoID)
               => transactionID[r1] # transactionID[r2]
    /\ \A s1, s2 \in Sessions : s1 # s2 => inflight[s1] \cap inflight[s2] = {}

\* A service-listener transaction and a Kubernetes-listener transaction are
\* live at once, on the same session.
C22_Witness ==
    \E r1, r2 \in Requests :
        /\ listener[r1] = "service" /\ listener[r2] = "kube"
        /\ Live(r1) /\ Live(r2)
        /\ sessionID[r1] = sessionID[r2]
        /\ {transactionID[r1], transactionID[r2]} \subseteq inflight[sessionID[r1]]


\* The agent's headers of an HttpResponse frame as a header map: each name
\* with all its values, in order.
AgentHeader(resp) ==
    [n \in {resp.Headers[i].Name : i \in DOMAIN resp.Headers} |->
        LET i == CHOOSE j \in DOMAIN resp.Headers : resp.Headers[j].Name = n
        IN  resp.Headers[i].Values]

(***************************************************************************)
(* C23, as stated. Response header isolation: when the adapter processes   *)
(* HttpResponse, every header set before on the inbound response object is *)
(* removed before the agent's headers are copied, so that w.Header() then  *)
(* holds exactly the agent's headers, and the headers sent to the caller   *)
(* are exactly the agent's.                                                *)
(***************************************************************************)
C23_HeaderIsolation ==
    hdrResps # <<>> =>
        /\ wHeader = AgentHeader(Last(hdrResps))
        /\ sentHeader.sent /\ sentHeader.header = AgentHeader(hdrResps[1])

\* The names and values the inbound caller sent, by canonical name.
InboundNames == {CanonicalMIMEHeaderKey(hdrWire[i].name) : i \in DOMAIN hdrWire}
InboundValues(k) ==
    LET ls == SelectSeq(hdrWire, LAMBDA l : CanonicalMIMEHeaderKey(l.name) = k)
    IN  [i \in 1..Len(ls) |-> ls[i].value]

(***************************************************************************)
(* C24. Request header forwarding: the header list of the outgoing         *)
(* HttpRequest contains every inbound header name except Accept-Encoding,  *)
(* each exactly once with its full unchanged value list, and never         *)
(* contains Accept-Encoding, however the caller spelled it.                *)
(***************************************************************************)
C24_HeaderForwarding ==
    hdrPc # "new" =>
        /\ \A k \in InboundNames \ {"Accept-Encoding"} :
               /\ Cardinality({i \in DOMAIN fwdHeaders : fwdHeaders[i].Name = k}) = 1
               /\ \A i \in DOMAIN fwdHeaders :
                      fwdHeaders[i].Name = k => fwdHeaders[i].Values = InboundValues(k)
        /\ \A i \in DOMAIN fwdHeaders :
               /\ fwdHeaders[i].Name \in InboundNames
               /\ fwdHeaders[i].Name # "Accept-Encoding"
               /\ CanonicalMIMEHeaderKey(fwdHeaders[i].Name) # "Accept-Encoding"

\* The caller sent accept-encoding in lower case and x-a; only X-A is
\* forwarded.
C24_Witness ==
    /\ hdrPc = "recv"
    /\ hdrWire = <<Line("accept-encoding", "1"), Line("x-a", "2")>>
    /\ fwdHeaders = <<HttpHeader("X-A", <<"2">>)>>


\* The ids of the HttpRequest frames among the first n frames the
\* controller put on the outbound queue of session s, in order.
RequestIds(s, n) ==
    LET reqs == SelectSeq(SubSeq(outbound[s], 1, n), LAMBDA f : f.kind = "HttpRequest")
    IN  [i \in 1..Len(reqs) |-> reqs[i].id]

\* The ids of the requests the agent of s answered, in order.
AnsweredIds(s) ==
    LET oks == SelectSeq(agentDone[s], LAMBDA x : x.outcome = "ok")
    IN  [i \in 1..Len(oks) |-> oks[i].id]

(***************************************************************************)
(* C25. Id echo: every frame runCommand emits carries the id of its        *)
(* CommandRequest; every HttpResponse the agent sends carries the id of    *)
(* the HttpRequest it answers; the controller puts the id it minted for a  *)
(* request into the one HttpRequest it sends for it, and every Cancel for  *)
(* the request carries that same id.                                       *)
(***************************************************************************)
C25_IdEcho ==
    /\ \A i \in DOMAIN dataflow : dataflow[i].Id = CommandId
    /\ \A s \in Sessions :
           /\ [i \in DOMAIN agentDone[s] |-> agentDone[s][i].id] = RequestIds(s, agentPos[s])
           /\ [i \in DOMAIN agentOut[s] |-> agentOut[s][i].Id] = AnsweredIds(s)
           /\ \A i \in DOMAIN outbound[s] :
                  outbound[s][i].kind = "CancelRequest" =>
                      \E r \in Requests :
                          /\ transactionID[r] = outbound[s][i].id
                          /\ cancels[r] # <<>>
    /\ \A r \in Requests :
           /\ \A i \in DOMAIN cancels[r] :
                  cancels[r][i].id = transactionID[r] /\ transactionID[r] # NoID
           /\ Dispatched(r) =>
                  Cardinality({i \in DOMAIN outbound[sessionID[r]] :
                                  /\ outbound[sessionID[r]][i].kind = "HttpRequest"
                                  /\ outbound[sessionID[r]][i].id = transactionID[r]}) = 1

\* The agent answered two requests of one session, each with its own id,
\* and the first of them was then cancelled with its id.
C25_Witness ==
    \E s \in Sessions :
        /\ Len(agentOut[s]) = 2
        /\ agentOut[s][1].Id # agentOut[s][2].Id
        /\ \E i \in DOMAIN outbound[s] :
               outbound[s][i] = CancelRequest(agentOut[s][1].Id)

(***************************************************************************)
(* C26. Agent HTTP response guarantee: for every HttpRequest the agent     *)
(* has handled it has emitted an HttpResponse frame carrying the request's *)
(* id, including when the local HTTP call failed (a frame the stream      *)
(* refused to send aside).                                                 *)
(***************************************************************************)
C26_AlwaysAnswered ==
    \A s \in Sessions : \A i \in DOMAIN agentDone[s] :
        agentDone[s][i].outcome # "Send" =>
            \E j \in DOMAIN agentOut[s] :
                agentOut[s][j].kind = "HttpResponse" /\ agentOut[s][j].Id = agentDone[s][i].id


(***************************************************************************)
(* C27. Termination after disconnect: a handler blocks only on its mailbox *)
(* and has no timeout, yet once its caller has disconnected it eventually  *)
(* returns: the watcher's Cancel closes the transaction's mailbox, or the  *)
(* session was already gone and its close had closed it; the handler then  *)
(* observes the close.  No handler stays blocked after its caller left.    *)
(***************************************************************************)
C27_ReturnsAfterDisconnect ==
    /\ [](\A r \in Requests :
            /\ pc[r] = "recv" => Dispatched(r) /\ mailbox[r] # "none"
            /\ (Dispatched(r) /\ watcher[r] = "cancelled") => mailbox[r] = "closed"
            /\ (pc[r] = "recv" /\ ctx[r] = "client" /\ watcher[r] = "skipped")
                   => mailbox[r] = "closed")
    /\ \A r \in Requests : (pc[r] = "recv" /\ ctx[r] = "client") ~> (pc[r] = "done")

\* The caller left a handler that had written the agent's status; the
\* watcher cancelled, and the handler returned on the closed mailbox.
C27_Witness ==
    \E r \in Requests :
        /\ ctx[r] = "client"
        /\ watcher[r] = "cancelled"
        /\ pc[r] = "done"
        /\ ClosedSeen(r)
        /\ HeaderAt(r) # {}
        /\ sess[sessionID[r]] = "ready"


(***************************************************************************)
(* C28. Buffer isolation: the body of each CommandData frame equals the    *)
(* bytes returned by the pipe read that produced it, stays equal to them   *)
(* after the reader task reads again into its reused buffer, and is what   *)
(* the consumer finds whenever it serialises the frame: the frame owns a   *)
(* copy, not a view of the read buffer.                                    *)
(***************************************************************************)
C28_BufferIsolation ==
    /\ \A i \in DOMAIN bufMsgs :
           IF bufMsgs[i].closed
           THEN i = Len(bufMsgs) /\ bufPc = "returned" /\ i = Len(bufReads) + 1
           ELSE /\ i <= Len(bufReads)
                /\ Deref(bufMsgs[i].value, buffer, tmps) = bufReads[i]
                /\ bufMsgs[i].value.arr > 0
                /\ \A j \in DOMAIN bufMsgs :
                       (j # i /\ ~bufMsgs[j].closed) => bufMsgs[j].value.arr # bufMsgs[i].value.arr
    /\ \A i \in DOMAIN bufWire :
           bufWire[i] = IF bufMsgs[i].closed THEN <<>> ELSE bufReads[i]

\* The task read a, then bc into the same buffer before the first frame
\* was serialised; the first frame was then serialised as a.
C28_Witness ==
    /\ bufReads = << <<"a">>, <<"b", "c">> >>
    /\ buffer = <<"b", "c">>
    /\ bufWire = << <<"a">> >>


(***************************************************************************)
(* C29. Inflight release on return: on every return path of a handler that *)
(* follows a successful Send (contentLength 0, empty terminating chunk,    *)
(* protocol error, mailbox closed) the adapter has observed the mailbox    *)
(* closed or Cancel is invoked for the requestID; hence no inflight entry  *)
(* outlives its adapter, and no session reader blocks delivering a frame   *)
(* to a mailbox nobody drains.                                             *)
(***************************************************************************)
C29_InflightReleased ==
    /\ \A r \in Requests :
           (Dispatched(r) /\ pc[r] = "done" /\ watcher[r] # "waiting") =>
               /\ ClosedSeen(r) \/ cancels[r] # <<>>
               /\ transactionID[r] \notin inflight[sessionID[r]]
    /\ \A s \in Sessions : blocked[s] = NoID

(***************************************************************************)
(* C30, as stated. Single status line: for any sequence of frames          *)
(* delivered to a transaction's mailbox, a second HttpResponse included,   *)
(* the adapter calls WriteHeader at most once, and never writes a 502      *)
(* after an agent-supplied status.                                         *)
(***************************************************************************)
C30_WriteHeaderOnce ==
    \A r \in Requests :
        Dispatched(r) =>
            /\ Len(WriteHeaderCalls(w[r])) <= 1
            /\ \A i \in DOMAIN WriteHeaderCalls(w[r]) :
                   WriteHeaderCalls(w[r])[i].code = StatusBadGateway => i = 1

(***************************************************************************)
(* C30, amended. Single status line: the adapter calls WriteHeader once    *)
(* for every HttpResponse it takes from the mailbox, a second HttpResponse *)
(* included, and once more only for a 502 written when no HttpResponse was *)
(* seen; the first call fixes the status line the caller gets and the      *)
(* later ones are ignored.  A 502 is never written once an agent-supplied  *)
(* status has been written, nor an agent-supplied status after a 502.      *)
(***************************************************************************)
C30_SingleStatusLine ==
    \A r \in Requests :
        Dispatched(r) =>
            LET calls == WriteHeaderCalls(w[r])
                bad == {i \in DOMAIN calls : calls[i].code = StatusBadGateway}
            IN  /\ Len(calls) = Cardinality(HeaderAt(r)) + Cardinality(bad)
                /\ bad # {} => Len(calls) = 1 /\ HeaderAt(r) = {}
                /\ calls # <<>> => w[r][1].op = "WriteHeader" /\ Status(w[r]) = calls[1].code
                /\ (pc[r] = "done" /\ HeaderAt(r) = {}) => bad = {1}

\* The agent sent two HttpResponse frames and the mailbox was then closed:
\* WriteHeader was called twice with the agent's status, and no 502.
C30_Witness ==
    \E r \in Requests :
        /\ Cardinality(HeaderAt(r)) = 2
        /\ ClosedSeen(r)
        /\ Len(WriteHeaderCalls(w[r])) = 2
        /\ Status(w[r]) = StatusOK


(***************************************************************************)
(* C31. Cancel discipline: for each transaction the cancellation watcher   *)
(* invokes Cancel at most once; the watcher goroutine terminates once the  *)
(* inbound request context has ended; and when the handler returned with   *)
(* cleanClose set before the caller cancelled the context, no Cancel is    *)
(* ever issued for that requestID.                                         *)
(***************************************************************************)
C31_CancelDiscipline ==
    /\ [](\A r \in Requests :
            /\ Len(cancels[r]) <= 1
            /\ watcher[r] = "none" => cancels[r] = <<>>
            /\ watcher[r] = "waiting" => cancels[r] = <<>>
            /\ (ctx[r] = "returned" /\ cleanClose[r]) =>
                   /\ cancels[r] = <<>>
                   /\ watcher[r] # "cancelled"
                   /\ \A s \in Sessions : \A i \in 1..Len(outbound[s]) :
                          ~(outbound[s][i].kind = "CancelRequest"
                              /\ outbound[s][i].id = transactionID[r]))
    /\ [][\A r \in Requests :
            watcher[r] \in {"cancelled", "skipped"} =>
                /\ watcher'[r] = watcher[r]
                /\ cancels'[r] = cancels[r]]_vars
    /\ \A r \in Requests :
            (Dispatched(r) /\ ctx[r] # "live") ~> (watcher[r] \in {"cancelled", "skipped"})

\* A handler returned on a clean close, the context ended with the return,
\* and the watcher finished without calling Cancel.
C31_Witness ==
    \E r \in Requests :
        /\ Dispatched(r)
        /\ ctx[r] = "returned"
        /\ cleanClose[r]
        /\ watcher[r] = "skipped"
        /\ cancels[r] = <<>>


\* The handler of r returned because an HttpChunkedResponse arrived before
\* any HttpResponse.
ProtocolError(r) ==
    /\ Dispatched(r)
    /\ pc[r] = "done"
    /\ received[r] # <<>>
    /\ Last(received[r]).kind = "HttpChunkedResponse"
    /\ ~seenHeader[r]

(***************************************************************************)
(* C32. Protocol error releases the agent: when runAPIHandler ends a       *)
(* transaction because an HttpChunkedResponse preceded the HttpResponse,   *)
(* it has answered 502 and returned without cleanClose; the request        *)
(* context has then ended, so the watcher calls Cancel for that requestID  *)
(* on the session Send chose, and a CancelRequest with the id is enqueued  *)
(* for the agent of that session while the session is connected.           *)
(***************************************************************************)
C32_ProtocolErrorCancels ==
    /\ [](\A r \in Requests :
            (listener[r] = "service" /\ ProtocolError(r)) =>
                /\ ~cleanClose[r]
                /\ Status(w[r]) = StatusBadGateway
                /\ ctx[r] # "live"
                /\ watcher[r] \in {"waiting", "cancelled"}
                /\ watcher[r] = "cancelled" =>
                       /\ cancels[r] = CancelOnSendSession(r)
                       /\ sess[sessionID[r]] = "ready" =>
                              \E i \in 1..Len(outbound[sessionID[r]]) :
                                 outbound[sessionID[r]][i] = CancelRequest(transactionID[r]))
    /\ \A r \in Requests :
            (listener[r] = "service" /\ ProtocolError(r)) ~> (cancels[r] # <<>>)

\* The agent sent a chunk first; the handler answered 502, the watcher
\* cancelled, and the CancelRequest is queued for the connected agent.
C32_Witness ==
    \E r \in Requests :
        /\ listener[r] = "service"
        /\ ProtocolError(r)
        /\ watcher[r] = "cancelled"
        /\ sess[sessionID[r]] = "ready"
        /\ \E i \in 1..Len(outbound[sessionID[r]]) :
               outbound[sessionID[r]][i] = CancelRequest(transactionID[r])


(***************************************************************************)
(* C33. Exactly one termination: on every path through runCommand exactly  *)
(* one CommandTermination frame is emitted for the request id; it is       *)
(* emitted as runCommand returns and is the last frame emitted for that id *)
(* (no CommandData follows it).                                            *)
(***************************************************************************)
C33_ExactlyOneTermination ==
    /\ \A i \in 1..Len(dataflow) : dataflow[i].Id = CommandId
    /\ cmdPc # "returned" => TerminationAt = {}
    /\ cmdPc = "returned" =>
           /\ Cardinality(TerminationAt) = 1
           /\ TerminationAt = {Len(dataflow)}
           /\ \A i \in 1..Len(dataflow) - 1 : dataflow[i].kind = "CommandData"

\* A child that was started, wrote data and exited non-zero: its frames end
\* with the single termination frame.
C33_Witness ==
    /\ cmdPc = "returned"
    /\ cmdRun.spawn = "ok"
    /\ Len(dataflow) > 3
    /\ Cardinality(TerminationAt) = 1
    /\ dataflow[Len(dataflow)].kind = "CommandTermination"
    /\ dataflow[Len(dataflow)].ExitCode # 0


(***************************************************************************)
(* C34. No stranded reader tasks: on every path through runCommand,        *)
(* including the one where cmd.Start fails after the two pipe reader tasks *)
(* were launched, no outputSender task remains blocked in its send on the  *)
(* aggregation channel once runCommand has returned.                       *)
(***************************************************************************)
C34_NoStrandedSenders ==
    cmdPc = "returned" => \A ch \in Channels : sender[ch] # "blocked"


(***************************************************************************)
(* C35. Credential precedence: a request to the service listener that      *)
(* presents a service-purpose certificate is dispatched under the          *)
(* certificate's identity whatever its Basic-auth credentials are (the     *)
(* result of extractEndpoint does not depend on them); the JWT decides     *)
(* only when there is no peer certificate, its name does not parse or its  *)
(* purpose is not service, and then a valid JWT alone authorises the       *)
(* dispatch under the token's claims, and without one the request is       *)
(* refused.                                                                *)
(***************************************************************************)
C35_CredentialPrecedence ==
    \A r \in Requests :
        listener[r] = "service" =>
            LET fromCert == extractEndpointFromCert(cert[r])
                fromJWT == extractEndpointFromJWT(auth[r])
            IN  /\ fromCert.validated <=> cert[r].purpose = "service"
                /\ fromCert.validated =>
                       /\ transactionID[r] # NoID
                       /\ ep[r].Name = cert[r].agent
                       /\ ep[r].EndpointType = cert[r].type
                       /\ ep[r].EndpointName = cert[r].name
                       /\ \A a \in AuthTokens : extractEndpoint(cert[r], a) = fromCert
                /\ ~fromCert.validated =>
                       /\ fromJWT.validated <=> (auth[r].scheme = "basic" /\ auth[r].valid)
                       /\ (transactionID[r] # NoID) <=> fromJWT.validated
                       /\ fromJWT.validated =>
                              /\ ep[r].Name = auth[r].agent
                              /\ ep[r].EndpointType = auth[r].type
                              /\ ep[r].EndpointName = auth[r].name
                       /\ ~fromJWT.validated => pc[r] = "done" /\ sessionID[r] = NoSession

\* A request with the service certificate of (east, kubernetes, default) and
\* a valid JWT of another identity was dispatched under the certificate's.
C35_Witness ==
    \E r \in Requests :
        /\ listener[r] = "service"
        /\ cert[r].purpose = "service"
        /\ auth[r].scheme = "basic" /\ auth[r].valid
        /\ auth[r].agent # cert[r].agent
        /\ transactionID[r] # NoID
        /\ ep[r].Name = cert[r].agent
        /\ ep[r].EndpointType = cert[r].type


\* The locals of a handler when it enters its loop, after a successful send.
LoopEntry ==
    [seenHeader |-> FALSE, isChunked |-> FALSE, cleanClose |-> FALSE, w |-> <<>>,
     returned |-> FALSE]

\* The locals after the loop of runAPIHandler (service) or of
\* kubernetesAPIHandler took the events in order, up to its return.
RECURSIVE LoopOn(_, _, _)
LoopOn(service, h, events) ==
    IF events = <<>> \/ h.returned THEN h
    ELSE LoopOn(service,
                IF service THEN runAPIHandlerEvent(h, Head(events))
                ELSE kubernetesAPIHandlerEvent(h, Head(events)),
                Tail(events))

\* r.Header and w.Header() values the header loops are compared on.
EquivRequestHeaders ==
    {EmptyHeader, ReadHeader(EmptyHeader, <<Line("x-a", "1"), Line("X-B", "2")>>)}
EquivResponseHeaders ==
    {EmptyHeader} \cup {addHeaders(EmptyHeader, p.Headers) : p \in HdrResponses}

(***************************************************************************)
(* C36. Handler equivalence: on the same sequence of mailbox events        *)
(* (frames and close) after a successful send, the loop of                 *)
(* kubernetesAPIHandler and the loop of runAPIHandler make the same calls  *)
(* on the inbound response (status, body bytes, flushes, in the same       *)
(* order), set the same response headers, and finish with the same         *)
(* seenHeader, isChunked and cleanClose; the events every dispatched       *)
(* request has taken give, under either loop, the response it has.         *)
(***************************************************************************)
C36_HandlerEquivalence ==
    /\ \A r \in Requests :
            Dispatched(r) =>
                LET service == LoopOn(TRUE, LoopEntry, received[r])
                    kube == LoopOn(FALSE, LoopEntry, received[r])
                IN  /\ service = kube
                    /\ service.w = w[r]
                    /\ service.seenHeader = seenHeader[r]
                    /\ service.isChunked = isChunked[r]
                    /\ service.cleanClose = cleanClose[r]
                    /\ service.returned <=> (pc[r] = "done")
                    /\ \A e \in AgentFrames \cup {ClosedEvent} :
                           runAPIHandlerEvent(Locals(r), e) = kubernetesAPIHandlerEvent(Locals(r), e)
    /\ \A rh \in EquivRequestHeaders, wh \in EquivResponseHeaders, resp \in HdrResponses :
            apiResponseHeaders(rh, wh, resp) = kubernetesResponseHeaders(rh, wh, resp)

\* A request of the Kubernetes listener took a chunked response to its clean
\* end, flushing its chunk; the loop of runAPIHandler makes the same calls on
\* the same events.
C36_Witness ==
    \E r \in Requests :
        /\ listener[r] = "kube"
        /\ Dispatched(r)
        /\ Len(received[r]) >= 3
        /\ pc[r] = "done"
        /\ cleanClose[r]
        /\ \E i \in 1..Len(w[r]) : w[r][i].op = "Flush"
        /\ LoopOn(TRUE, LoopEntry, received[r]).w = w[r]
        /\ LoopOn(TRUE, LoopEntry, received[r]).cleanClose

====
